---- MODULE Spec2Model ----
(***************************************************************************)
(* A model of the netpbm package: the header tokenizer, the per-format     *)
(* decoders and encoders, and the promotion logic of DecodeWithComments.   *)
(* Files and pixel buffers are sequences of bytes (0..255); a decimal      *)
(* number in a file is the sequence of its ASCII digits.                   *)
(***************************************************************************)
EXTENDS Integers, Sequences, FiniteSets, TLC

\* ------------------------------------------------------------------------
\* Bounds of the model
\* ------------------------------------------------------------------------
MaxPixels == 2
\* the longest sequence of tokenizer calls on one reader
MaxOps == 3

\* ------------------------------------------------------------------------
\* The Format enumeration (iota order)
\* ------------------------------------------------------------------------
PNM == 0
PBM == 1
PGM == 2
PPM == 3
PAM == 4

FormatString(f) ==
    CASE f = PNM -> "PNM"
      [] f = PBM -> "PBM"
      [] f = PGM -> "PGM"
      [] f = PPM -> "PPM"
      [] f = PAM -> "PAM"
      [] OTHER -> "%!s(netpbm.Format)"

\* ------------------------------------------------------------------------
\* Bytes, characters and decimal text
\* ------------------------------------------------------------------------
CH_LF == 10
CH_CR == 13
CH_SP == 32
CH_HASH == 35
CH_0 == 48
CH_9 == 57
CH_P == 80

\* unicode.IsSpace restricted to the Latin-1 range a byte cast to a rune has
IsSpace(c) == c \in {9, 10, 11, 12, 13, 32, 133, 160}

\* unicode.IsDigit restricted to the Latin-1 range
IsDigit(c) == c >= CH_0 /\ c <= CH_9

RECURSIVE Dec(_)
\* fmt's %d verb for a non-negative integer
Dec(n) == IF n < 10 THEN <<CH_0 + n>> ELSE Dec(n \div 10) \o <<CH_0 + (n % 10)>>

uint8(n) == n % 256
uint16(n) == n % 65536

RECURSIVE Pow2(_)
Pow2(k) == IF k = 0 THEN 1 ELSE 2 * Pow2(k - 1)

Min(a, b) == IF a < b THEN a ELSE b

\* ------------------------------------------------------------------------
\* bufio.Reader and netpbmReader
\*   buf  : all the bytes of the underlying stream
\*   pos  : how many of them have been consumed
\*   last : bufio's lastByte (-1 when UnreadByte is not allowed)
\*   err  : netpbmReader's sticky error
\* ------------------------------------------------------------------------
NoErr == "nil"
EOF == "EOF"
ErrInvalidUnreadByte == "bufio: invalid use of UnreadByte"

NewBufioReader(bytes) == [buf |-> bytes, pos |-> 0, last |-> -1, err |-> NoErr]

newNetpbmReader(br) == [br EXCEPT !.err = NoErr]

\* a Peek that reads: the two bytes are consumed as two ReadByte calls would
Peek2_Consuming(br) ==
    IF Len(br.buf) - br.pos >= 2
    THEN [br |-> [br EXCEPT !.pos = @ + 2, !.last = br.buf[br.pos + 2]], err |-> NoErr,
          magic |-> <<br.buf[br.pos + 1], br.buf[br.pos + 2]>>]
    ELSE [br |-> [br EXCEPT !.last = -1], err |-> EOF, magic |-> <<>>]

\* bufio.Reader.Peek(2): nothing is consumed, lastByte is invalidated
Peek2(br) ==
    IF Len(br.buf) - br.pos >= 2
    THEN [br |-> [br EXCEPT !.last = -1], err |-> NoErr,
          magic |-> <<br.buf[br.pos + 1], br.buf[br.pos + 2]>>]
    ELSE [br |-> [br EXCEPT !.last = -1], err |-> EOF, magic |-> <<>>]

GetNextByteAsRune(nr) ==
    IF nr.err # NoErr THEN [nr |-> nr, c |-> 0]
    ELSE IF nr.pos >= Len(nr.buf) THEN [nr |-> [nr EXCEPT !.err = EOF], c |-> 0]
    ELSE [nr |-> [nr EXCEPT !.pos = @ + 1, !.last = nr.buf[nr.pos + 1]],
          c |-> nr.buf[nr.pos + 1]]

\* nr.err = nr.UnreadByte()
UnreadByte(nr) ==
    IF nr.last < 0 THEN [nr EXCEPT !.err = ErrInvalidUnreadByte]
    ELSE [nr EXCEPT !.pos = @ - 1, !.last = -1, !.err = NoErr]

RECURSIVE SkipSpaces(_)
\* for c = nr.GetNextByteAsRune(); unicode.IsSpace(c); c = nr.GetNextByteAsRune() {}
SkipSpaces(nr) ==
    LET g == GetNextByteAsRune(nr)
    IN IF IsSpace(g.c) THEN SkipSpaces(g.nr) ELSE g

RECURSIVE ReadDigits(_, _)
\* for c = nr.GetNextByteAsRune(); digit(c); c = ... { value = value*10 + int(c-'0') }
ReadDigits(nr, value) ==
    LET g == GetNextByteAsRune(nr)
    IN IF IsDigit(g.c) THEN ReadDigits(g.nr, value * 10 + (g.c - CH_0))
       ELSE [nr |-> g.nr, c |-> g.c, value |-> value]

RECURSIVE DiscardLine(_)
\* for c = nr.GetNextByteAsRune(); c != '\n'; c = nr.GetNextByteAsRune() {}
\* once the reader has failed every read returns 0 and the loop never ends
DiscardLine(nr) ==
    LET g == GetNextByteAsRune(nr)
    IN IF g.nr.err # NoErr THEN [nr |-> g.nr, c |-> 0, hang |-> TRUE]
       ELSE IF g.c = CH_LF THEN [nr |-> g.nr, c |-> g.c, hang |-> FALSE]
       ELSE DiscardLine(g.nr)

\* if c == '#' { for c = nr.GetNextByteAsRune(); c != '\n'; ... {} }, for the
\* byte g at which the white-space loop stopped
SkipComment(g) ==
    IF g.c = CH_HASH THEN DiscardLine(g.nr) ELSE [nr |-> g.nr, c |-> g.c, hang |-> FALSE]

RECURSIVE FindFirstDigit(_)
\* the first loop of GetNextInt: for nr.err == nil && !unicode.IsDigit(c) { ... }
\*   f : the reader, the last byte read and whether a loop never ends
FindFirstDigit(f) ==
    IF f.hang \/ ~(f.nr.err = NoErr /\ ~IsDigit(f.c)) THEN f
    ELSE FindFirstDigit(SkipComment(SkipSpaces(f.nr)))

\* the end of GetNextInt, after the digit loop ended with d:
\* nr.err = nr.UnreadByte() and the value
UnreadInt(d) ==
    LET u == UnreadByte(d.nr)
    IN IF d.nr.err # NoErr /\ d.nr.err # EOF THEN [nr |-> d.nr, val |-> -1, hang |-> FALSE]
       ELSE IF u.err # NoErr THEN [nr |-> u, val |-> -1, hang |-> FALSE]
       ELSE [nr |-> u, val |-> d.value, hang |-> FALSE]

\* a GetNextInt that does not test the sticky error after its first loop
ReadInt_NotSticky(f) ==
    IF f.hang THEN [nr |-> f.nr, val |-> -1, hang |-> TRUE]
    ELSE UnreadInt(ReadDigits(f.nr, f.c - CH_0))

\* the digits of GetNextInt, after its first loop ended with f
ReadInt(f) ==
    IF f.hang THEN [nr |-> f.nr, val |-> -1, hang |-> TRUE]
    ELSE IF f.nr.err # NoErr THEN [nr |-> f.nr, val |-> -1, hang |-> FALSE]
    ELSE UnreadInt(ReadDigits(f.nr, f.c - CH_0))

GetNextInt(nr) == ReadInt(FindFirstDigit([nr |-> nr, c |-> 0, hang |-> FALSE]))

\* unicode.IsLetter and unicode.IsPunct restricted to the Latin-1 range
IsLetter(c) ==
    \/ c \in 65..90 \/ c \in 97..122 \/ c \in {170, 181, 186}
    \/ c \in 192..214 \/ c \in 216..246 \/ c \in 248..255

IsPunct(c) ==
    c \in {33, 34, 35, 37, 38, 39, 40, 41, 42, 44, 45, 46, 47, 58, 59, 63, 64, 91, 92, 93,
           95, 123, 125, 161, 167, 171, 182, 183, 187, 191}

RECURSIVE FindFirstLetter(_)
\* the first loop of GetNextString: for nr.err == nil && !unicode.IsLetter(c) { ... }
FindFirstLetter(f) ==
    IF f.hang \/ ~(f.nr.err = NoErr /\ ~IsLetter(f.c)) THEN f
    ELSE FindFirstLetter(SkipComment(SkipSpaces(f.nr)))

RECURSIVE ReadLetters(_, _)
\* for c = nr.GetNextByteAsRune(); letter(c) || punct(c); ... { sb.WriteRune(c) }
ReadLetters(nr, sb) ==
    LET g == GetNextByteAsRune(nr)
    IN IF IsLetter(g.c) \/ IsPunct(g.c) THEN ReadLetters(g.nr, Append(sb, g.c))
       ELSE [nr |-> g.nr, c |-> g.c, value |-> sb]

\* the end of GetNextString, after the letter loop ended with d
UnreadString(d) ==
    LET u == UnreadByte(d.nr)
    IN IF d.nr.err # NoErr /\ d.nr.err # EOF THEN [nr |-> d.nr, str |-> <<>>, hang |-> FALSE]
       ELSE IF u.err # NoErr THEN [nr |-> u, str |-> <<>>, hang |-> FALSE]
       ELSE [nr |-> u, str |-> d.value, hang |-> FALSE]

ReadString(f) ==
    IF f.hang THEN [nr |-> f.nr, str |-> <<>>, hang |-> TRUE]
    ELSE IF f.nr.err # NoErr THEN [nr |-> f.nr, str |-> <<>>, hang |-> FALSE]
    ELSE UnreadString(ReadLetters(f.nr, <<f.c>>))

GetNextString(nr) == ReadString(FindFirstLetter([nr |-> nr, c |-> 0, hang |-> FALSE]))

\* ------------------------------------------------------------------------
\* GetIntsAndComments: the header state machine
\* ------------------------------------------------------------------------
InSpace == 0
InDigit == 1
InComment == 2

ErrHeaderEOF == "Unexpected EOF in Netpbm header"
ErrHeaderChar == "Unexpected header character"

RECURSIVE ReadComment(_, _)
\* for c = nr.GetNextByteAsRune(); c != '\n' && c != '\r'; c = ... { cmt = append(cmt, c) }
ReadComment(nr, cmt) ==
    LET g == GetNextByteAsRune(nr)
    IN IF g.nr.err # NoErr THEN [nr |-> g.nr, cmt |-> cmt, hang |-> TRUE]
       ELSE IF g.c = CH_LF \/ g.c = CH_CR THEN [nr |-> g.nr, cmt |-> cmt, hang |-> FALSE]
       ELSE ReadComment(g.nr, Append(cmt, g.c))

GICFail(nr, e) == [nr |-> nr, numbers |-> <<>>, comments |-> <<>>, err |-> e, hang |-> FALSE]

RECURSIVE GICLoop(_, _, _, _, _, _, _)
\* a tokenizer for which the line feed that ends a comment also ends the integer
GICLoop_CommentEndsInteger(nr, n, state, prevState, num, numbers, comments) ==
    CASE state = InSpace ->
           LET g == SkipSpaces(nr)
           IN IF IsDigit(g.c)
              THEN GICLoop(g.nr, n, InDigit, prevState, g.c - CH_0, numbers, comments)
              ELSE IF g.c = CH_HASH
              THEN GICLoop(g.nr, n, InComment, InSpace, num, numbers, comments)
              ELSE IF g.c = 0 THEN GICFail(g.nr, ErrHeaderEOF)
              ELSE GICFail(g.nr, ErrHeaderChar)
      [] state = InDigit ->
           LET d == ReadDigits(nr, num)
           IN IF IsSpace(d.c)
              THEN IF Len(numbers) + 1 = n
                   THEN [nr |-> d.nr, numbers |-> Append(numbers, d.value),
                         comments |-> comments, err |-> NoErr, hang |-> FALSE]
                   ELSE GICLoop(d.nr, n, InSpace, prevState, d.value,
                                Append(numbers, d.value), comments)
              ELSE IF d.c = CH_HASH
              THEN GICLoop(d.nr, n, InComment, InDigit, d.value, numbers, comments)
              ELSE IF d.c = 0 THEN GICFail(d.nr, ErrHeaderEOF)
              ELSE GICFail(d.nr, ErrHeaderChar)
      [] state = InComment ->
           LET r == ReadComment(nr, <<>>)
               cmt == IF Len(r.cmt) > 0 /\ IsSpace(r.cmt[1]) THEN Tail(r.cmt) ELSE r.cmt
           IN IF r.hang
              THEN [nr |-> r.nr, numbers |-> <<>>, comments |-> <<>>, err |-> NoErr,
                    hang |-> TRUE]
              ELSE IF prevState = InDigit /\ Len(numbers) + 1 = n
              THEN [nr |-> r.nr, numbers |-> Append(numbers, num),
                    comments |-> Append(comments, cmt), err |-> NoErr, hang |-> FALSE]
              ELSE GICLoop(r.nr, n, InSpace, InComment, num,
                           IF prevState = InDigit THEN Append(numbers, num) ELSE numbers,
                           Append(comments, cmt))
      [] OTHER -> GICFail(nr, ErrHeaderEOF)

GICLoop(nr, n, state, prevState, num, numbers, comments) ==
    CASE state = InSpace ->
           LET g == SkipSpaces(nr)
           IN IF IsDigit(g.c)
              THEN GICLoop(g.nr, n, InDigit, prevState, g.c - CH_0, numbers, comments)
              ELSE IF g.c = CH_HASH
              THEN GICLoop(g.nr, n, InComment, InSpace, num, numbers, comments)
              ELSE IF g.c = 0 THEN GICFail(g.nr, ErrHeaderEOF)
              ELSE GICFail(g.nr, ErrHeaderChar)
      [] state = InDigit ->
           LET d == ReadDigits(nr, num)
           IN IF IsSpace(d.c)
              THEN IF Len(numbers) + 1 = n
                   THEN [nr |-> d.nr, numbers |-> Append(numbers, d.value),
                         comments |-> comments, err |-> NoErr, hang |-> FALSE]
                   ELSE GICLoop(d.nr, n, InSpace, prevState, d.value,
                                Append(numbers, d.value), comments)
              ELSE IF d.c = CH_HASH
              THEN GICLoop(d.nr, n, InComment, InDigit, d.value, numbers, comments)
              ELSE IF d.c = 0 THEN GICFail(d.nr, ErrHeaderEOF)
              ELSE GICFail(d.nr, ErrHeaderChar)
      [] state = InComment ->
           LET r == ReadComment(nr, <<>>)
               cmt == IF Len(r.cmt) > 0 /\ IsSpace(r.cmt[1]) THEN Tail(r.cmt) ELSE r.cmt
           IN IF r.hang
              THEN [nr |-> r.nr, numbers |-> <<>>, comments |-> <<>>, err |-> NoErr,
                    hang |-> TRUE]
              ELSE GICLoop(r.nr, n, prevState, InComment, num, numbers,
                           Append(comments, cmt))
      [] OTHER -> GICFail(nr, ErrHeaderEOF)

GetIntsAndComments(nr, n) == GICLoop(nr, n, InSpace, 0, 0, <<>>, <<>>)

\* ------------------------------------------------------------------------
\* GetNetpbmHeader (P1-P6)
\* ------------------------------------------------------------------------
EmptyHeader ==
    [Magic |-> <<>>, Width |-> 0, Height |-> 0, Depth |-> 0, Maxval |-> 0,
     TupleType |-> <<>>, Comments |-> <<>>]

HdrFail(nr) == [ok |-> FALSE, header |-> EmptyHeader, nr |-> nr, hang |-> FALSE]

\* the header GetNetpbmHeader returns for the magic number and the result r
\* of GetIntsAndComments
HeaderOf(magic, isPBM, r) ==
    LET maxval == IF isPBM THEN 1 ELSE r.numbers[3]
    IN IF r.hang THEN [ok |-> FALSE, header |-> EmptyHeader, nr |-> r.nr, hang |-> TRUE]
       ELSE IF r.err # NoErr THEN HdrFail(r.nr)
       ELSE IF r.nr.err # NoErr \/ maxval < 1 \/ maxval > 65535 THEN HdrFail(r.nr)
       ELSE [ok |-> TRUE, hang |-> FALSE, nr |-> r.nr,
             header |-> [Magic |-> magic, Width |-> r.numbers[1],
                         Height |-> r.numbers[2], Depth |-> 0,
                         Maxval |-> maxval, TupleType |-> <<>>,
                         Comments |-> r.comments]]

GetNetpbmHeader(nr) ==
    LET g1 == GetNextByteAsRune(nr)
        g2 == GetNextByteAsRune(g1.nr)
        g3 == GetNextByteAsRune(g2.nr)
        isPBM == g2.c \in {CH_0 + 1, CH_0 + 4}
    IN IF g1.c # CH_P THEN HdrFail(g1.nr)
       ELSE IF g2.c < CH_0 + 1 \/ g2.c > CH_0 + 6 THEN HdrFail(g2.nr)
       ELSE IF ~IsSpace(g3.c) THEN HdrFail(g3.nr)
       ELSE HeaderOf(<<g1.c, g2.c>>, isPBM,
                     GetIntsAndComments(g3.nr, IF isPBM THEN 2 ELSE 3))

\* ------------------------------------------------------------------------
\* GetPamHeader (P7)
\* ------------------------------------------------------------------------
\* the header keywords and the tuple types, as ASCII
KW_ENDHDR == <<69, 78, 68, 72, 68, 82>>
KW_HEIGHT == <<72, 69, 73, 71, 72, 84>>
KW_WIDTH == <<87, 73, 68, 84, 72>>
KW_DEPTH == <<68, 69, 80, 84, 72>>
KW_MAXVAL == <<77, 65, 88, 86, 65, 76>>
KW_TUPLTYPE == <<84, 85, 80, 76, 84, 89, 80, 69>>
KW_HASH == <<35>>

TT_BLACKANDWHITE == <<66, 76, 65, 67, 75, 65, 78, 68, 87, 72, 73, 84, 69>>
TT_ALPHA == <<95, 65, 76, 80, 72, 65>>
TT_BLACKANDWHITE_ALPHA == TT_BLACKANDWHITE \o TT_ALPHA
TT_GRAYSCALE == <<71, 82, 65, 89, 83, 67, 65, 76, 69>>
TT_GRAYSCALE_ALPHA == TT_GRAYSCALE \o TT_ALPHA
TT_RGB == <<82, 71, 66>>
TT_RGB_ALPHA == TT_RGB \o TT_ALPHA

pamBlackAndWhite == 0
pamBlackAndWhiteAlpha == 1
pamGrayscale == 2
pamGrayscaleAlpha == 3
pamColor == 4
pamColorAlpha == 5

\* the map ttToInt; -1 stands for a missing key
ttToInt(s) ==
    CASE s = TT_BLACKANDWHITE -> pamBlackAndWhite
      [] s = TT_BLACKANDWHITE_ALPHA -> pamBlackAndWhiteAlpha
      [] s = TT_GRAYSCALE -> pamGrayscale
      [] s = TT_GRAYSCALE_ALPHA -> pamGrayscaleAlpha
      [] s = TT_RGB -> pamColor
      [] s = TT_RGB_ALPHA -> pamColorAlpha
      [] OTHER -> -1

\* the white space strings.TrimSpace removes from a string of ASCII bytes
IsTrimSpace(c) == c \in {9, 10, 11, 12, 13, 32}

RECURSIVE TrimLeft(_)
TrimLeft(s) == IF Len(s) > 0 /\ IsTrimSpace(s[1]) THEN TrimLeft(Tail(s)) ELSE s

RECURSIVE TrimRight(_)
TrimRight(s) ==
    IF Len(s) > 0 /\ IsTrimSpace(s[Len(s)]) THEN TrimRight(SubSeq(s, 1, Len(s) - 1)) ELSE s

TrimSpace(s) == TrimRight(TrimLeft(s))

\* index of the first byte c in s at or after position i, 0 when there is none
IndexFrom(s, c, i) ==
    LET hits == {j \in i..Len(s) : s[j] = c}
    IN IF hits = {} THEN 0 ELSE CHOOSE j \in hits : \A k \in hits : j <= k

\* strconv.Atoi on a short string: an optional sign and decimal digits
RECURSIVE DigitsValue(_, _)
DigitsValue(s, acc) ==
    IF s = <<>> THEN acc ELSE DigitsValue(Tail(s), acc * 10 + (Head(s) - CH_0))

Atoi(s) ==
    LET signed == Len(s) > 0 /\ s[1] \in {43, 45}
        digits == IF signed THEN Tail(s) ELSE s
        ok == Len(digits) > 0 /\ \A i \in 1..Len(digits) : IsDigit(digits[i])
        v == DigitsValue(digits, 0)
    IN [ok |-> ok, val |-> IF ~ok THEN 0 ELSE IF signed /\ s[1] = 45 THEN 0 - v ELSE v]

\* returns <<>> for nil, or <<key, value>>
GetLineAsKeyValue(nr) ==
    IF nr.err # NoErr THEN [nr |-> nr, kv |-> <<>>]
    ELSE LET nl == IndexFrom(nr.buf, CH_LF, nr.pos + 1)
         IN IF nl = 0
            THEN \* ReadString consumed the rest of the stream and reports EOF
                 [nr |-> [nr EXCEPT !.pos = Len(nr.buf), !.err = EOF,
                                    !.last = IF Len(nr.buf) > nr.pos
                                             THEN nr.buf[Len(nr.buf)] ELSE nr.last],
                  kv |-> <<>>]
            ELSE LET nr2 == [nr EXCEPT !.pos = nl, !.last = CH_LF]
                     s == TrimSpace(SubSeq(nr.buf, nr.pos + 1, nl))
                     sp == IndexFrom(s, CH_SP, 1)
                 IN IF s = <<>> THEN [nr |-> nr2, kv |-> <<>>]
                    ELSE IF s[1] = CH_HASH
                    THEN [nr |-> nr2, kv |-> <<KW_HASH, TrimSpace(Tail(s))>>]
                    ELSE IF sp = 0 THEN [nr |-> nr2, kv |-> <<s, <<>>>>]
                    ELSE [nr |-> nr2,
                          kv |-> <<SubSeq(s, 1, sp - 1),
                                   TrimSpace(SubSeq(s, sp + 1, Len(s)))>>]

\* getMagic(lo, hi): 'P', a digit in lo..hi and one white-space byte
getMagic(nr, lo, hi) ==
    LET g1 == GetNextByteAsRune(nr)
        g2 == GetNextByteAsRune(g1.nr)
        g3 == GetNextByteAsRune(g2.nr)
    IN IF g1.c # CH_P THEN [nr |-> g1.nr, ok |-> FALSE, magic |-> <<>>]
       ELSE IF g2.c < lo \/ g2.c > hi THEN [nr |-> g2.nr, ok |-> FALSE, magic |-> <<>>]
       ELSE IF ~IsSpace(g3.c) THEN [nr |-> g3.nr, ok |-> FALSE, magic |-> <<>>]
       ELSE [nr |-> g3.nr, ok |-> TRUE, magic |-> <<g1.c, g2.c>>]

RECURSIVE PamReadLoop(_, _)
\* one iteration of the loop of GetPamHeader, for the line l it read
PamLine(l, header) ==
    LET k == l.kv[1]
        v == l.kv[2]
        a == Atoi(v)
    IN IF l.nr.err # NoErr THEN HdrFail(l.nr)
       ELSE IF Len(l.kv) = 0 THEN PamReadLoop(l.nr, header)
       ELSE CASE k = KW_ENDHDR ->
                   IF header.Maxval < 1 \/ header.Maxval > 65535 THEN HdrFail(l.nr)
                   ELSE [ok |-> TRUE, header |-> header, nr |-> l.nr, hang |-> FALSE]
              [] k = KW_HEIGHT ->
                   IF ~a.ok THEN HdrFail(l.nr)
                   ELSE PamReadLoop(l.nr, [header EXCEPT !.Height = a.val])
              [] k = KW_WIDTH ->
                   IF ~a.ok THEN HdrFail(l.nr)
                   ELSE PamReadLoop(l.nr, [header EXCEPT !.Width = a.val])
              [] k = KW_DEPTH ->
                   IF ~a.ok THEN HdrFail(l.nr)
                   ELSE PamReadLoop(l.nr, [header EXCEPT !.Depth = a.val])
              [] k = KW_MAXVAL ->
                   IF ~a.ok THEN HdrFail(l.nr)
                   ELSE PamReadLoop(l.nr, [header EXCEPT !.Maxval = a.val])
              [] k = KW_TUPLTYPE ->
                   PamReadLoop(l.nr,
                       [header EXCEPT !.TupleType =
                           IF @ # <<>> THEN @ \o <<CH_SP>> \o v ELSE v])
              [] k = KW_HASH ->
                   PamReadLoop(l.nr, [header EXCEPT !.Comments = Append(@, v)])
              [] OTHER -> HdrFail(l.nr)

PamReadLoop(nr, header) == PamLine(GetLineAsKeyValue(nr), header)

GetPamHeader(nr) ==
    LET m == getMagic(nr, CH_0 + 7, CH_0 + 7)
    IN IF ~m.ok THEN HdrFail(m.nr)
       ELSE PamReadLoop(m.nr, [EmptyHeader EXCEPT !.Magic = m.magic])

\* ------------------------------------------------------------------------
\* Images: BW, GrayM, GrayM32, RGBM, RGBM64, GrayAM, GrayAM48, RGBAM, RGBAM64
\*   W, H : Rect.Dx(), Rect.Dy()      M : the colour model's maximum value
\*   Pix  : the pixel bytes, row-major (Stride = bytes per pixel * W)
\* ------------------------------------------------------------------------
NoImage == [kind |-> "nil", W |-> 0, H |-> 0, M |-> 0, Pix |-> <<>>]

\* bytes of Pix per pixel, from the New... constructors
BytesPerPixel(kind) ==
    CASE kind = "BW" -> 1
      [] kind = "GrayM" -> 1
      [] kind = "GrayM32" -> 2
      [] kind = "RGBM" -> 3
      [] kind = "RGBM64" -> 6
      [] kind = "GrayAM" -> 2
      [] kind = "GrayAM48" -> 4
      [] kind = "RGBAM" -> 4
      [] kind = "RGBAM64" -> 8
      [] kind = "Gray" -> 1

Abs(n) == IF n < 0 THEN 0 - n ELSE n

Zeros(n) == [i \in 1..n |-> 0]

\* image.Rect(0, 0, w, h) puts the corners in order, so Dx() = |w| and Dy() = |h|
NewImage(kind, w, h, m) ==
    [kind |-> kind, W |-> Abs(w), H |-> Abs(h), M |-> m,
     Pix |-> Zeros(BytesPerPixel(kind) * Abs(w) * Abs(h))]

NewBW(w, h) == NewImage("BW", w, h, 1)
NewGrayM(w, h, m) == NewImage("GrayM", w, h, uint8(m))
NewGrayM32(w, h, m) == NewImage("GrayM32", w, h, uint16(m))
NewRGBM(w, h, m) == NewImage("RGBM", w, h, uint8(m))
NewRGBM64(w, h, m) == NewImage("RGBM64", w, h, uint16(m))
NewGrayAM(w, h, m) == NewImage("GrayAM", w, h, uint8(m))
NewGrayAM48(w, h, m) == NewImage("GrayAM48", w, h, uint16(m))
NewRGBAM(w, h, m) == NewImage("RGBAM", w, h, uint8(m))
NewRGBAM64(w, h, m) == NewImage("RGBAM64", w, h, uint16(m))

\* img.(Image): the images of this package; the kind "Gray" is image.Gray of
\* the standard library, which has no Format() and no MaxValue()
IsNetpbm(img) == img.kind # "Gray"

\* the Format() methods
Format(img) ==
    CASE img.kind = "BW" -> PBM
      [] img.kind \in {"GrayM", "GrayM32", "GrayAM", "GrayAM48"} -> PGM
      [] img.kind \in {"RGBM", "RGBM64", "RGBAM", "RGBAM64"} -> PPM

\* the MaxValue() methods
MaxValue(img) == IF img.kind = "BW" THEN 1 ELSE img.M

\* the HasAlpha() methods
HasAlpha(img) == img.kind \in {"GrayAM", "GrayAM48", "RGBAM", "RGBAM64"}

\* Opaque of RGBAM, RGBAM64, GrayAM and GrayAM48: the bytes of the alpha
\* sample of every pixel are compared with 0xff.  Pix is indexed from 1, and
\* Stride is the number of bytes of a row.
Opaque(p) ==
    LET stride == BytesPerPixel(p.kind) * p.W
        \* i0 of the first row and the step of i
        i0 == CASE p.kind = "RGBAM" -> 3
                [] p.kind = "RGBAM64" -> 6
                [] p.kind = "GrayAM" -> 1
                [] p.kind = "GrayAM48" -> 2
        wide == p.kind \in {"RGBAM64", "GrayAM48"}
    IN IF p.W = 0 \/ p.H = 0 THEN TRUE
       ELSE \A y \in 0..(p.H - 1) : \A x \in 0..(p.W - 1) :
               LET i == y * stride + i0 + x * BytesPerPixel(p.kind)
               IN IF wide THEN p.Pix[i + 1] = 255 /\ p.Pix[i + 2] = 255
                  ELSE p.Pix[i + 1] = 255

\* number of samples per pixel and bytes per sample
Channels(img) ==
    CASE img.kind \in {"BW", "GrayM", "GrayM32"} -> 1
      [] img.kind \in {"GrayAM", "GrayAM48"} -> 2
      [] img.kind \in {"RGBM", "RGBM64"} -> 3
      [] img.kind \in {"RGBAM", "RGBAM64"} -> 4

SampleWidth(img) ==
    IF img.kind \in {"GrayM32", "RGBM64", "GrayAM48", "RGBAM64"} THEN 2 ELSE 1

\* sample k (1-based, row-major, channel-interleaved) of an image
SampleAt(img, k) ==
    IF SampleWidth(img) = 1 THEN img.Pix[k]
    ELSE img.Pix[2 * k - 1] * 256 + img.Pix[2 * k]

Samples(img) == [k \in 1..(img.W * img.H * Channels(img)) |-> SampleAt(img, k)]

\* ------------------------------------------------------------------------
\* Promotion methods
\* ------------------------------------------------------------------------
\* a promotion that scales the bit itself: gray.Pix[i] = bw * m
PromoteToGrayM_Direct(p, m) ==
    [NewGrayM(p.W, p.H, m) EXCEPT
        !.Pix = [i \in 1..Len(p.Pix) |-> uint8(p.Pix[i] * m)]]

PromoteToGrayM(p, m) ==
    [NewGrayM(p.W, p.H, m) EXCEPT
        !.Pix = [i \in 1..Len(p.Pix) |-> uint8((1 - p.Pix[i]) * m)]]

\* a promotion that stores the low byte of each sample first
PromoteToGrayM32_LittleEndian(p, m) ==
    [NewGrayM32(p.W, p.H, m) EXCEPT
        !.Pix = [j \in 1..(2 * Len(p.Pix)) |->
                    LET i == (j + 1) \div 2
                        g == uint16(uint16(1 - p.Pix[i]) * m)
                    IN IF j % 2 = 1 THEN uint8(g) ELSE uint8(g \div 256)]]

PromoteToGrayM32(p, m) ==
    [NewGrayM32(p.W, p.H, m) EXCEPT
        !.Pix = [j \in 1..(2 * Len(p.Pix)) |->
                    LET i == (j + 1) \div 2
                        g == uint16(uint16(1 - p.Pix[i]) * m)
                    IN IF j % 2 = 1 THEN uint8(g \div 256) ELSE uint8(g)]]

PromoteToRGBM(p) ==
    [NewRGBM(p.W, p.H, p.M) EXCEPT
        !.Pix = [j \in 1..(3 * Len(p.Pix)) |-> p.Pix[((j - 1) \div 3) + 1]]]

\* a promotion that fills the red channel only
PromoteToRGBM64_RedOnly(p) ==
    [NewRGBM64(p.W, p.H, p.M) EXCEPT
        !.Pix = [j \in 1..(3 * Len(p.Pix)) |->
                    LET base == (j - 1) \div 6
                        ofs == (j - 1) % 6
                    IN IF ofs < 2 THEN p.Pix[base * 2 + ofs + 1] ELSE 0]]

\* rgb.Pix[base*6+ofs+0], [..+2] and [..+4] all receive byte i = base*2+ofs
PromoteToRGBM64(p) ==
    [NewRGBM64(p.W, p.H, p.M) EXCEPT
        !.Pix = [j \in 1..(3 * Len(p.Pix)) |->
                    LET base == (j - 1) \div 6
                        ofs == (j - 1) % 2
                    IN p.Pix[base * 2 + ofs + 1]]]

\* ------------------------------------------------------------------------
\* Results of a decoder
\*   out    : "return", "panic" (the goroutine panics) or "hang" (a loop that
\*            never ends)
\*   detail : the string an error message quotes with %q
\* ------------------------------------------------------------------------
Ret(img, comments, err, br) ==
    [out |-> "return", img |-> img, comments |-> comments, err |-> err, br |-> br,
     detail |-> <<>>]

Panic(msg, br) ==
    [out |-> "panic", img |-> NoImage, comments |-> <<>>, err |-> msg, br |-> br,
     detail |-> <<>>]

Hang(br) ==
    [out |-> "hang", img |-> NoImage, comments |-> <<>>, err |-> NoErr, br |-> br,
     detail |-> <<>>]

\* for len(data) > 0 { nRead, err := br.Read(data); ... data = data[nRead:] }
\* however the stream hands over its bytes, the loop fills data when n bytes
\* remain and otherwise consumes the rest and fails on the read that returns 0
ReadData(br, n) ==
    LET avail == Len(br.buf) - br.pos
        got == Min(n, avail)
        data == [i \in 1..n |-> IF i <= got THEN br.buf[br.pos + i] ELSE 0]
        br2 == [br EXCEPT !.pos = @ + got,
                          !.last = IF got > 0 THEN br.buf[br.pos + got] ELSE @]
    IN [br |-> br2, data |-> data, ok |-> got = n]

\* ------------------------------------------------------------------------
\* PBM decoding
\* ------------------------------------------------------------------------
CfgFail(err, br) ==
    [ok |-> FALSE, hang |-> FALSE, err |-> err, br |-> br, Width |-> 0, Height |-> 0,
     model |-> "nil", M |-> 0, comments |-> <<>>]

CfgHang(br) == [CfgFail(NoErr, br) EXCEPT !.hang = TRUE]

\* the image.Config, comments and error a decodeConfig function returns for
\* the header h: invalid is its message for a bad header, small and large the
\* colour models below and from a maximum value of 256
ConfigOf(h, invalid, small, large) ==
    IF h.hang THEN CfgHang(h.nr)
    ELSE IF ~h.ok THEN CfgFail(IF h.nr.err = NoErr THEN invalid ELSE h.nr.err, h.nr)
    ELSE [ok |-> TRUE, hang |-> FALSE, err |-> NoErr, br |-> h.nr,
          Width |-> h.header.Width, Height |-> h.header.Height,
          model |-> IF h.header.Maxval < 256 THEN small ELSE large,
          M |-> h.header.Maxval, comments |-> h.header.Comments]

\* the colour model is the two-entry palette; GetNetpbmHeader gives a PBM
\* header the maximum value 1
decodeConfigPBMWithComments(br) ==
    ConfigOf(GetNetpbmHeader(newNetpbmReader(br)), "Invalid PBM header", "Palette", "Palette")

\* The bit loop of decodePBMWithComments over the bytes one Read returned.
\*   k : index of the current byte in chunk, i : bit number 7..0
\* Returns the pixels and whether bitsRemaining reached 0.
RECURSIVE UnpackBits_NoPadding(_, _, _, _, _, _, _)
\* a decoder that takes the padding bits of a row for pixels of the next row
UnpackBits_NoPadding(chunk, k, i, pix, bitNum, bitsRemaining, width) ==
    LET stored == k <= Len(chunk) /\ bitNum + 1 <= Len(pix)
        bit == (chunk[k] \div Pow2(i)) % 2
        pix2 == [pix EXCEPT ![bitNum + 1] = bit]
        nextByte == i = 0
    IN IF stored /\ bitsRemaining - 1 # 0
       THEN UnpackBits_NoPadding(chunk, IF nextByte THEN k + 1 ELSE k,
                                 IF nextByte THEN 7 ELSE i - 1,
                                 pix2, bitNum + 1, bitsRemaining - 1, width)
       ELSE IF k > Len(chunk)
       THEN [pix |-> pix, bitNum |-> bitNum, bitsRemaining |-> bitsRemaining,
             done |-> FALSE, panic |-> FALSE]
       ELSE IF bitNum + 1 > Len(pix)
       THEN [pix |-> pix, bitNum |-> bitNum, bitsRemaining |-> bitsRemaining,
             done |-> FALSE, panic |-> TRUE]
       ELSE [pix |-> pix2, bitNum |-> bitNum + 1, bitsRemaining |-> 0,
             done |-> TRUE, panic |-> FALSE]

RECURSIVE UnpackBits(_, _, _, _, _, _, _)
UnpackBits(chunk, k, i, pix, bitNum, bitsRemaining, width) ==
    LET \* a byte is left and img.Pix[bitNum] is in range
        stored == k <= Len(chunk) /\ bitNum + 1 <= Len(pix)
        bit == (chunk[k] \div Pow2(i)) % 2
        pix2 == [pix EXCEPT ![bitNum + 1] = bit]
        \* the row or the byte ends: break to the next byte
        nextByte == (bitNum + 1) % width = 0 \/ i = 0
    IN IF stored /\ bitsRemaining - 1 # 0
       THEN UnpackBits(chunk, IF nextByte THEN k + 1 ELSE k, IF nextByte THEN 7 ELSE i - 1,
                       pix2, bitNum + 1, bitsRemaining - 1, width)
       ELSE IF k > Len(chunk)
       THEN [pix |-> pix, bitNum |-> bitNum, bitsRemaining |-> bitsRemaining,
             done |-> FALSE, panic |-> FALSE]
       ELSE IF bitNum + 1 > Len(pix)
       THEN [pix |-> pix, bitNum |-> bitNum, bitsRemaining |-> bitsRemaining,
             done |-> FALSE, panic |-> TRUE]
       ELSE [pix |-> pix2, bitNum |-> bitNum + 1, bitsRemaining |-> 0,
             done |-> TRUE, panic |-> FALSE]

\* decodePBMWithComments after decodeConfigPBMWithComments returned c
decodePBMData(c) ==
    LET img == NewBW(c.Width, c.Height)
        nr == newNetpbmReader(c.br)
        \* the first nr.Read(buf) returns every byte that is left (the buffer
        \* holds 1<<20 bytes); the next one returns 0 and io.EOF
        chunk == SubSeq(nr.buf, nr.pos + 1, Len(nr.buf))
        nr2 == [nr EXCEPT !.pos = Len(nr.buf),
                          !.last = IF Len(chunk) > 0 THEN chunk[Len(chunk)] ELSE @]
        u == UnpackBits(chunk, 1, 7, img.Pix, 0, c.Width * c.Height, c.Width)
    IN IF c.hang THEN Hang(c.br)
       ELSE IF ~c.ok THEN Ret(NoImage, <<>>, c.err, c.br)
       ELSE IF Len(chunk) = 0 THEN Ret(NoImage, <<>>, EOF, nr)
       ELSE IF u.panic THEN Panic("index out of range", nr2)
       ELSE IF u.done THEN Ret([img EXCEPT !.Pix = u.pix], c.comments, NoErr, nr2)
       ELSE Ret(NoImage, <<>>, EOF, nr2)

decodePBMWithComments(br) == decodePBMData(decodeConfigPBMWithComments(br))

\* ch == '0' || ch == '1'
IsBit(c) == c = CH_0 \/ c = CH_0 + 1

\* The loop of decodePBMPlainWithComments, from a reader without an error:
\* white space is skipped and '0' and '1' fill the pixels until totalBits of
\* them are stored, a byte that is neither is read (stop), or the stream ends.
ReadPlainBits(nr, pix, totalBits) ==
    LET buf == nr.buf
        stops == {j \in (nr.pos + 1)..Len(buf) : ~IsSpace(buf[j]) /\ ~IsBit(buf[j])}
        stop == IF stops = {} THEN Len(buf) + 1
                ELSE CHOOSE j \in stops : \A k \in stops : j <= k
        bitsAt == {j \in (nr.pos + 1)..(stop - 1) : IsBit(buf[j])}
        bits == SelectSeq(SubSeq(buf, nr.pos + 1, stop - 1), IsBit)
        stored == Min(totalBits, Len(bits))
        pix2 == [n \in 1..Len(pix) |-> IF n <= stored THEN bits[n] - CH_0 ELSE pix[n]]
        end == CHOOSE j \in bitsAt : Cardinality({k \in bitsAt : k <= j}) = totalBits
    IN IF totalBits <= 0 THEN [nr |-> nr, pix |-> pix, ok |-> TRUE]
       ELSE IF Len(bits) >= totalBits
       THEN [nr |-> [nr EXCEPT !.pos = end, !.last = buf[end]], pix |-> pix2, ok |-> TRUE]
       ELSE IF stops # {}
       THEN [nr |-> [nr EXCEPT !.pos = stop, !.last = buf[stop]], pix |-> pix2, ok |-> FALSE]
       ELSE [nr |-> [nr EXCEPT !.pos = Len(buf), !.err = EOF,
                               !.last = IF Len(buf) > nr.pos THEN buf[Len(buf)] ELSE @],
             pix |-> pix2, ok |-> FALSE]

\* decodePBMPlainWithComments after decodeConfigPBMWithComments returned c
decodePBMPlainData(c) ==
    LET img == NewBW(c.Width, c.Height)
        r == ReadPlainBits(newNetpbmReader(c.br), img.Pix, c.Width * c.Height)
    IN IF c.hang THEN Hang(c.br)
       ELSE IF ~c.ok THEN Ret(NoImage, <<>>, c.err, c.br)
       ELSE IF ~r.ok
       THEN Ret([img EXCEPT !.Pix = r.pix], <<>>,
                IF r.nr.err = NoErr THEN "Failed to parse ASCII PBM data" ELSE r.nr.err,
                r.nr)
       ELSE Ret([img EXCEPT !.Pix = r.pix], c.comments, NoErr, r.nr)

decodePBMPlainWithComments(br) == decodePBMPlainData(decodeConfigPBMWithComments(br))

\* ------------------------------------------------------------------------
\* GetASCIIData: plain samples into an 8-bit or 16-bit pixel buffer
\* ------------------------------------------------------------------------
RECURSIVE ASCIILoop(_, _, _, _)
ASCIILoop(nr, maxVal, data, i) ==
    LET g == GetNextInt(nr)
        \* val := nr.GetNextInt() with nr.Err() == nil and 0 <= val <= maxVal
        good == ~g.hang /\ g.nr.err = NoErr /\ ~(g.val < 0 \/ g.val > maxVal)
        data2 == IF maxVal < 256 THEN [data EXCEPT ![i + 1] = uint8(g.val)]
                 ELSE [data EXCEPT ![i + 1] = uint8(g.val \div 256),
                                   ![i + 2] = uint8(g.val)]
    IN IF i < Len(data) /\ good
       THEN ASCIILoop(g.nr, maxVal, data2, IF maxVal < 256 THEN i + 1 ELSE i + 2)
       ELSE IF ~(i < Len(data))
       THEN [nr |-> nr, data |-> data, ok |-> TRUE, hang |-> FALSE]
       ELSE [nr |-> g.nr, data |-> data, ok |-> FALSE, hang |-> g.hang]

GetASCIIData(nr, maxVal, data) == ASCIILoop(nr, maxVal, data, 0)

\* ------------------------------------------------------------------------
\* PGM decoding
\* ------------------------------------------------------------------------
decodeConfigPGMWithComments(br) ==
    ConfigOf(GetNetpbmHeader(newNetpbmReader(br)), "Invalid PGM header",
             "GrayMModel", "GrayM32Model")

\* the image a decoder allocates for a colour model
ImageForModel(c) ==
    CASE c.model = "GrayMModel" -> NewGrayM(c.Width, c.Height, c.M)
      [] c.model = "GrayM32Model" -> NewGrayM32(c.Width, c.Height, c.M)
      [] c.model = "RGBMModel" -> NewRGBM(c.Width, c.Height, c.M)
      [] c.model = "RGBM64Model" -> NewRGBM64(c.Width, c.Height, c.M)
      [] c.model = "GrayAMModel" -> NewGrayAM(c.Width, c.Height, c.M)
      [] c.model = "GrayAM48Model" -> NewGrayAM48(c.Width, c.Height, c.M)
      [] c.model = "RGBAMModel" -> NewRGBAM(c.Width, c.Height, c.M)
      [] c.model = "RGBAM64Model" -> NewRGBAM64(c.Width, c.Height, c.M)

\* a decoder of raw samples after its decodeConfig function returned c: the
\* samples are read straight into the pixel buffer
DecodeRawInto(c, failure) ==
    LET img == ImageForModel(c)
        r == ReadData(c.br, Len(img.Pix))
    IN IF c.hang THEN Hang(c.br)
       ELSE IF ~c.ok THEN Ret(NoImage, <<>>, c.err, c.br)
       ELSE IF r.ok THEN Ret([img EXCEPT !.Pix = r.data], c.comments, NoErr, r.br)
       ELSE Ret([img EXCEPT !.Pix = r.data], <<>>, failure, r.br)

\* what a decoder of plain samples returns once GetASCIIData returned r
PlainResult(c, img, r, failure) ==
    IF r.hang THEN Hang(r.nr)
    ELSE IF ~r.ok
    THEN Ret([img EXCEPT !.Pix = r.data], <<>>,
             IF r.nr.err = NoErr THEN failure ELSE r.nr.err, r.nr)
    ELSE Ret([img EXCEPT !.Pix = r.data], c.comments, NoErr, r.nr)

\* a decoder of plain samples after its decodeConfig function returned c
DecodePlainInto(c, failure) ==
    IF c.hang THEN Hang(c.br)
    ELSE IF ~c.ok THEN Ret(NoImage, <<>>, c.err, c.br)
    ELSE PlainResult(c, ImageForModel(c),
                     GetASCIIData(newNetpbmReader(c.br), c.M, ImageForModel(c).Pix),
                     failure)

decodePGMWithComments(br) ==
    DecodeRawInto(decodeConfigPGMWithComments(br), "Failed to read binary PGM data")

decodePGMPlainWithComments(br) ==
    DecodePlainInto(decodeConfigPGMWithComments(br), "Failed to parse ASCII PGM data")

\* ------------------------------------------------------------------------
\* PPM decoding: three samples per pixel, otherwise as PGM
\* ------------------------------------------------------------------------
decodeConfigPPMWithComments(br) ==
    ConfigOf(GetNetpbmHeader(newNetpbmReader(br)), "Invalid PPM header",
             "RGBMModel", "RGBM64Model")

decodePPMWithComments(br) ==
    DecodeRawInto(decodeConfigPPMWithComments(br), "Failed to read binary PPM data")

decodePPMPlainWithComments(br) ==
    DecodePlainInto(decodeConfigPPMWithComments(br), "Failed to parse ASCII PPM data")

\* ------------------------------------------------------------------------
\* PAM decoding
\* ------------------------------------------------------------------------
ErrUnsupportedTupleType == "Unsupported tuple type"

\* the image.Config decodeConfigPAMWithComments returns for the header h
\*   err carries the message; tt the string quoted in it
PamConfigOf(h) ==
    LET ttype == ttToInt(h.header.TupleType)
        small == h.header.Maxval < 256
        model == CASE ttype = pamColorAlpha -> IF small THEN "RGBAMModel" ELSE "RGBAM64Model"
                   [] ttype = pamColor -> IF small THEN "RGBMModel" ELSE "RGBM64Model"
                   [] ttype = pamGrayscaleAlpha ->
                        IF small THEN "GrayAMModel" ELSE "GrayAM48Model"
                   [] ttype = pamGrayscale -> IF small THEN "GrayMModel" ELSE "GrayM32Model"
                   [] ttype = pamBlackAndWhiteAlpha -> "panic"
                   [] ttype = pamBlackAndWhite -> "Palette"
    IN IF ~h.ok
       THEN CfgFail(IF h.nr.err = NoErr THEN "Invalid PAM header" ELSE h.nr.err, h.nr)
                @@ [tt |-> <<>>]
       ELSE IF ttype = -1
       THEN CfgFail(ErrUnsupportedTupleType, h.nr) @@ [tt |-> h.header.TupleType]
       ELSE [ok |-> TRUE, hang |-> FALSE, err |-> NoErr, br |-> h.nr,
             Width |-> h.header.Width, Height |-> h.header.Height,
             model |-> model, M |-> h.header.Maxval,
             comments |-> h.header.Comments, tt |-> h.header.TupleType]

decodeConfigPAMWithComments(br) == PamConfigOf(GetPamHeader(newNetpbmReader(br)))

\* decodePAMWithComments after decodeConfigPAMWithComments returned c
decodePAMData(c) ==
    IF ~c.ok THEN [Ret(NoImage, <<>>, c.err, c.br) EXCEPT !.detail = c.tt]
    ELSE IF c.model = "panic"
    THEN Panic("Black & white + alpha is not currently supported", c.br)
    ELSE IF c.model = "Palette" THEN Panic("Unexpected color model", c.br)
    ELSE DecodeRawInto(c, "Failed to read binary PPM data")

decodePAMWithComments(br) == decodePAMData(decodeConfigPAMWithComments(br))

\* ------------------------------------------------------------------------
\* DecodeWithComments and Decode
\*   opts : [Target, Exact, PBMMaxValue]
\* ------------------------------------------------------------------------
ErrNotNetpbm == "Not a Netpbm image"
ErrExactPNM == "Exact=true is incompatible with Target=PNM"
ErrRejected == "rejected by Decode options"
ErrBadMagic == "Unrecognized magic sequence"
ErrCannotDemote == "Cannot demote"

\* for nimg.Format() < o.Target { ... }
RECURSIVE PromoteLoop(_, _, _, _)
PromoteLoop(nimg, o, comments, br) ==
    IF ~(Format(nimg) < o.Target) THEN Ret(nimg, comments, NoErr, br)
    ELSE CASE Format(nimg) = PBM ->
                IF nimg.kind # "BW" THEN Panic("interface conversion", br)
                ELSE IF o.PBMMaxValue < 256
                THEN PromoteLoop(PromoteToGrayM(nimg, uint8(o.PBMMaxValue)), o, comments, br)
                ELSE PromoteLoop(PromoteToGrayM32(nimg, o.PBMMaxValue), o, comments, br)
           [] Format(nimg) = PGM ->
                IF MaxValue(nimg) < 256
                THEN IF nimg.kind # "GrayM" THEN Panic("interface conversion", br)
                     ELSE PromoteLoop(PromoteToRGBM(nimg), o, comments, br)
                ELSE IF nimg.kind # "GrayM32" THEN Panic("interface conversion", br)
                     ELSE PromoteLoop(PromoteToRGBM64(nimg), o, comments, br)
           [] OTHER -> Panic("Attempted to promote a format other than PBM or PGM", br)

\* the end of DecodeWithComments without the test nimg.Format() > o.Target
DecodeResult_NoDemoteCheck(r, o) ==
    IF r.out # "return" THEN r
    ELSE IF r.err # NoErr THEN [Ret(NoImage, <<>>, r.err, r.br) EXCEPT !.detail = r.detail]
    ELSE IF o.Target = PNM THEN Ret(r.img, r.comments, NoErr, r.br)
    ELSE PromoteLoop(r.img, o, r.comments, r.br)

\* the end of DecodeWithComments, once the decoder of the format returned r:
\* its error, the image as it is, a refused demotion or the promotions
DecodeResult(r, o) ==
    IF r.out # "return" THEN r
    ELSE IF r.err # NoErr THEN [Ret(NoImage, <<>>, r.err, r.br) EXCEPT !.detail = r.detail]
    ELSE IF o.Target = PNM THEN Ret(r.img, r.comments, NoErr, r.br)
    ELSE IF Format(r.img) > o.Target
    THEN [Ret(NoImage, <<>>, ErrCannotDemote, r.br)
             EXCEPT !.detail = <<FormatString(Format(r.img)), FormatString(o.Target)>>]
    ELSE PromoteLoop(r.img, o, r.comments, r.br)

DecodeWithComments(br, opts) ==
    LET pk == Peek2(br)
        rr == pk.br
        o == [opts EXCEPT !.PBMMaxValue = IF @ = 0 THEN 255 ELSE @]
        d == pk.magic[2] - CH_0
        native == CASE d \in {1, 4} -> PBM
                    [] d \in {2, 5} -> PGM
                    [] d \in {3, 6} -> PPM
                    [] d = 7 -> PAM
    IN IF pk.err # NoErr THEN Ret(NoImage, <<>>, pk.err, rr)
       ELSE IF pk.magic[1] # CH_P THEN Ret(NoImage, <<>>, ErrNotNetpbm, rr)
       ELSE IF o.Exact /\ o.Target = PNM THEN Ret(NoImage, <<>>, ErrExactPNM, rr)
       ELSE IF d \notin 1..7
       THEN [Ret(NoImage, <<>>, ErrBadMagic, rr) EXCEPT !.detail = pk.magic]
       ELSE IF o.Exact /\ o.Target # native
       THEN [Ret(NoImage, <<>>, ErrRejected, rr) EXCEPT !.detail = <<FormatString(native)>>]
       ELSE DecodeResult(CASE d = 1 -> decodePBMPlainWithComments(rr)
                           [] d = 2 -> decodePGMPlainWithComments(rr)
                           [] d = 3 -> decodePPMPlainWithComments(rr)
                           [] d = 4 -> decodePBMWithComments(rr)
                           [] d = 5 -> decodePGMWithComments(rr)
                           [] d = 6 -> decodePPMWithComments(rr)
                           [] d = 7 -> decodePAMWithComments(rr),
                         o)

\* Decode drops the comments
Decode(br, opts) == [DecodeWithComments(br, opts) EXCEPT !.comments = <<>>]

\* the decoders registered with image.RegisterFormat: img, _, err := ...
decodePBM(br) == [decodePBMWithComments(br) EXCEPT !.comments = <<>>]
decodePBMPlain(br) == [decodePBMPlainWithComments(br) EXCEPT !.comments = <<>>]
decodePGM(br) == [decodePGMWithComments(br) EXCEPT !.comments = <<>>]
decodePGMPlain(br) == [decodePGMPlainWithComments(br) EXCEPT !.comments = <<>>]
decodePPM(br) == [decodePPMWithComments(br) EXCEPT !.comments = <<>>]
decodePPMPlain(br) == [decodePPMPlainWithComments(br) EXCEPT !.comments = <<>>]
decodePAM(br) == [decodePAMWithComments(br) EXCEPT !.comments = <<>>]

ErrUnknownFormat == "image: unknown format"

\* image.Decode: the decoder registered for the magic number of the stream
ImageDecode(br) ==
    LET pk == Peek2(br)
        d == pk.magic[2] - CH_0
    IN IF pk.err # NoErr \/ pk.magic[1] # CH_P THEN Ret(NoImage, <<>>, ErrUnknownFormat, pk.br)
       ELSE CASE d = 1 -> decodePBMPlain(pk.br)
              [] d = 2 -> decodePGMPlain(pk.br)
              [] d = 3 -> decodePPMPlain(pk.br)
              [] d = 4 -> decodePBM(pk.br)
              [] d = 5 -> decodePGM(pk.br)
              [] d = 6 -> decodePPM(pk.br)
              [] d = 7 -> decodePAM(pk.br)
              [] OTHER -> Ret(NoImage, <<>>, ErrUnknownFormat, pk.br)

\* what a DecodeConfig function returned for the image.Config c of its decoder
\*   out : "return", "panic" or "hang"
ConfigRet(c) ==
    [out |-> IF c.hang THEN "hang" ELSE IF c.ok /\ c.model = "panic" THEN "panic"
             ELSE "return",
     err |-> c.err, Width |-> c.Width, Height |-> c.Height, model |-> c.model,
     M |-> c.M, comments |-> c.comments, br |-> c.br]

DecodeConfigWithComments(br) ==
    LET pk == Peek2(br)
        d == pk.magic[2] - CH_0
    IN IF pk.err # NoErr THEN ConfigRet(CfgFail(pk.err, pk.br))
       ELSE IF pk.magic[1] # CH_P THEN ConfigRet(CfgFail(ErrNotNetpbm, pk.br))
       ELSE CASE d \in {1, 4} -> ConfigRet(decodeConfigPBMWithComments(pk.br))
              [] d \in {2, 5} -> ConfigRet(decodeConfigPGMWithComments(pk.br))
              [] d \in {3, 6} -> ConfigRet(decodeConfigPPMWithComments(pk.br))
              [] d = 7 -> ConfigRet(decodeConfigPAMWithComments(pk.br))
              [] OTHER -> ConfigRet(CfgFail(ErrBadMagic, pk.br))

\* DecodeConfig drops the comments
DecodeConfig(br) == [DecodeConfigWithComments(br) EXCEPT !.comments = <<>>]

\* ------------------------------------------------------------------------
\* Colours
\*   [type |-> "RGBA", R, G, B, A]   color.RGBA (the palette entries)
\*   [type |-> "GrayM", Y, M]        npcolor.GrayM
\*   [type |-> "GrayM32", Y, M]      npcolor.GrayM32
\*   [type |-> "Gray", Y]            color.Gray
\* ------------------------------------------------------------------------
\* the palette of NewBW: 0 = white, 1 = black
BWPalette ==
    << [type |-> "RGBA", R |-> 255, G |-> 255, B |-> 255, A |-> 255],
       [type |-> "RGBA", R |-> 0, G |-> 0, B |-> 0, A |-> 255] >>

\* (a * b + c) / d in uint32 arithmetic, for 16-bit a, b, c, d and a quotient
\* below 2^31; the product is split so that no intermediate value exceeds
\* the integers of the model checker (Go's uint32 does not wrap here either)
MulAddDiv(a, b, c, d) ==
    LET x == (a \div 256) * b
        z == (a % 256) * b + c
    IN (x \div d) * 256 + ((x % d) * 256 + z) \div d

\* the RGBA() methods: alpha-premultiplied 16-bit channels.  The samples of
\* the gray colours lie in 0..M.
RGBA(c) ==
    CASE c.type = "RGBA" ->
           [r |-> c.R * 257, g |-> c.G * 257, b |-> c.B * 257, a |-> c.A * 257]
      [] c.type \in {"GrayM", "GrayM32"} ->
           IF c.M = 0 THEN [r |-> 0, g |-> 0, b |-> 0, a |-> 0]
           ELSE LET y == MulAddDiv(c.Y, 65535, c.M \div 2, c.M)
                IN [r |-> y, g |-> y, b |-> y, a |-> 65535]
      [] c.type = "Gray" ->
           [r |-> c.Y * 257, g |-> c.Y * 257, b |-> c.Y * 257, a |-> 65535]
      [] c.type \in {"RGBM", "RGBM64"} ->
           IF c.M = 0 THEN [r |-> 0, g |-> 0, b |-> 0, a |-> 0]
           ELSE [r |-> MulAddDiv(c.R, 65535, c.M \div 2, c.M),
                 g |-> MulAddDiv(c.G, 65535, c.M \div 2, c.M),
                 b |-> MulAddDiv(c.B, 65535, c.M \div 2, c.M),
                 a |-> 65535]

\* image/color's sqDiff, (d * d) >> 2 with d = x - y: the wrapped square of
\* the difference is the square of its absolute value, here below 2^32
sqDiff(x, y) ==
    LET k == Abs(x - y)
        j == k \div 2
    IN j * j + j * (k % 2)

\* color.Palette.Index over the two entries of BWPalette, 0-based: the first
\* entry wins unless the second is strictly nearer.  The two sums are below
\* 2^32 and are compared half by half.
PaletteIndex(c) ==
    LET cc == RGBA(c)
        v0 == RGBA(BWPalette[1])
        v1 == RGBA(BWPalette[2])
        a0 == sqDiff(cc.r, v0.r) + sqDiff(cc.g, v0.g)
        b0 == sqDiff(cc.b, v0.b) + sqDiff(cc.a, v0.a)
        a1 == sqDiff(cc.r, v1.r) + sqDiff(cc.g, v1.g)
        b1 == sqDiff(cc.b, v1.b) + sqDiff(cc.a, v1.a)
    IN IF a0 = 0 /\ b0 = 0 THEN 0
       ELSE IF a1 - a0 < b0 - b1 THEN 1 ELSE 0

\* the luminance both gray models compute from RGBA()
GrayFromRGBA(c, m) ==
    LET p == RGBA(c)
        y == (299 * p.r + 587 * p.g + 114 * p.b + 500) \div 1000
    IN MulAddDiv(y, m, 32767, 65535)

GrayMModelConvert(m, c) ==
    IF c.type = "GrayM" /\ c.M = m THEN c
    ELSE [type |-> "GrayM", Y |-> uint8(GrayFromRGBA(c, m)), M |-> m]

GrayM32ModelConvert(m, c) ==
    IF c.type = "GrayM32" /\ c.M = m THEN c
    ELSE [type |-> "GrayM32", Y |-> uint16(GrayFromRGBA(c, m)), M |-> m]

\* RGBAMModel.Convert and RGBAM64Model.Convert of a colour that is not of the
\* model's own type: <<R, G, B, A>> scaled to the maximum value m
RGBAMModelConvert(m, c) ==
    LET p == RGBA(c)
    IN << MulAddDiv(p.r, m, 32767, 65535), MulAddDiv(p.g, m, 32767, 65535),
          MulAddDiv(p.b, m, 32767, 65535), MulAddDiv(p.a, m, 32767, 65535) >>

\* img.At for pixel number k (1-based, row-major) of a BW, GrayM, GrayM32 or
\* image.Gray
\* RGBMModel.Convert and RGBM64Model.Convert: the samples R, G, B of the
\* colour c at the maximum value m; a colour of that type and maximum value
\* is returned as it is
RGBMModelConvert(m, c) ==
    IF c.type = "RGBM" /\ c.M = m THEN <<c.R, c.G, c.B>>
    ELSE LET p == RGBA(c)
         IN << uint8(MulAddDiv(p.r, m, 32767, 65535)), uint8(MulAddDiv(p.g, m, 32767, 65535)),
               uint8(MulAddDiv(p.b, m, 32767, 65535)) >>

RGBM64ModelConvert(m, c) ==
    IF c.type = "RGBM64" /\ c.M = m THEN <<c.R, c.G, c.B>>
    ELSE LET p == RGBA(c)
         IN << uint16(MulAddDiv(p.r, m, 32767, 65535)), uint16(MulAddDiv(p.g, m, 32767, 65535)),
               uint16(MulAddDiv(p.b, m, 32767, 65535)) >>

At(img, k) ==
    CASE img.kind = "Gray" -> [type |-> "Gray", Y |-> img.Pix[k]]
      [] img.kind = "RGBM" ->
           [type |-> "RGBM", R |-> img.Pix[3 * k - 2], G |-> img.Pix[3 * k - 1],
            B |-> img.Pix[3 * k], M |-> img.M]
      [] img.kind = "RGBM64" ->
           [type |-> "RGBM64",
            R |-> img.Pix[6 * k - 5] * 256 + img.Pix[6 * k - 4],
            G |-> img.Pix[6 * k - 3] * 256 + img.Pix[6 * k - 2],
            B |-> img.Pix[6 * k - 1] * 256 + img.Pix[6 * k],
            M |-> img.M]
      [] img.kind = "BW" -> BWPalette[img.Pix[k] + 1]
      [] img.kind = "GrayM" -> [type |-> "GrayM", Y |-> img.Pix[k], M |-> img.M]
      [] img.kind = "GrayM32" ->
           [type |-> "GrayM32", Y |-> img.Pix[2 * k - 1] * 256 + img.Pix[2 * k],
            M |-> img.M]

\* ------------------------------------------------------------------------
\* Writers
\* ------------------------------------------------------------------------
LineLimit == 70

\* line followed by a line feed
EndLine_Append(line) == Append(line, CH_LF)

\* line with its last byte replaced by a line feed
EndLine(line) == [line EXCEPT ![Len(line)] = CH_LF]

RECURSIVE PlainLoop(_)
\* for s := range ch { ... }, then the last line
\*   st : the samples left in the channel, line and the bytes written so far
PlainLoop(st) ==
    LET word == Dec(Head(st.ch)) \o <<CH_SP>>
        fits == Len(st.line) + Len(word) <= LineLimit
    IN IF st.ch # <<>>
       THEN PlainLoop(IF fits
                      THEN [ch |-> Tail(st.ch), line |-> st.line \o word, out |-> st.out]
                      ELSE [ch |-> Tail(st.ch), line |-> word,
                            out |-> st.out \o EndLine(st.line)])
       ELSE IF st.line # <<>> THEN st.out \o EndLine(st.line) ELSE st.out

writePlainData(samples) == PlainLoop([ch |-> samples, line |-> <<>>, out |-> <<>>])

RECURSIVE Concat(_)
Concat(ss) == IF ss = <<>> THEN <<>> ELSE Head(ss) \o Concat(Tail(ss))

writeRawData(samples, wd) ==
    IF wd = 1 THEN [i \in 1..Len(samples) |-> uint8(samples[i])]
    ELSE [j \in 1..(2 * Len(samples)) |->
            IF j % 2 = 1 THEN uint8(samples[(j + 1) \div 2] \div 256)
            ELSE uint8(samples[j \div 2])]

\* ------------------------------------------------------------------------
\* Encoders
\*   opts : [Format, MaxValue, Plain, TupleType, Comments]
\* ------------------------------------------------------------------------
\* fmt.Fprintf(w, "# %s\n", cmt) after replacing line feeds and carriage returns
CommentLine(cmt) ==
    <<CH_HASH, CH_SP>> \o [i \in 1..Len(cmt) |->
                              IF cmt[i] \in {CH_LF, CH_CR} THEN CH_SP ELSE cmt[i]]
    \o <<CH_LF>>

CommentLines(cmts) == Concat([i \in 1..Len(cmts) |-> CommentLine(cmts[i])])

\* a goroutine that sends 1 for white and 0 for black
BWSamples_Inverted(img) == [k \in 1..(img.W * img.H) |-> 1 - PaletteIndex(At(img, k))]

\* the samples the background goroutine of encodeBWData sends
BWSamples(img) == [k \in 1..(img.W * img.H) |-> PaletteIndex(At(img, k))]

RECURSIVE PackBits(_, _)
\* the foreground loop of encodeBWData
\*   st : the samples left in the channel, b, bLen, rowBits and the bytes written
PackBits(st, width) ==
    LET \* b = b<<1 | byte(s), where s is a palette index, 0 or 1
        bOr == uint8(st.b * 2) + Head(st.ch)
        endRow == st.rowBits + 1 = width
        \* pad the last byte in the row
        bPad == IF endRow THEN uint8(bOr * Pow2(8 - (st.bLen + 1))) ELSE bOr
        len2 == IF endRow THEN 8 ELSE st.bLen + 1
        row2 == IF endRow THEN 0 ELSE st.rowBits + 1
    IN IF st.ch # <<>>
       THEN PackBits(IF len2 = 8
                     THEN \* write a full byte to the output
                          [ch |-> Tail(st.ch), b |-> 0, bLen |-> 0, rowBits |-> row2,
                           out |-> Append(st.out, bPad)]
                     ELSE [ch |-> Tail(st.ch), b |-> bPad, bLen |-> len2, rowBits |-> row2,
                           out |-> st.out],
                     width)
       ELSE st.out

encodeBWData(img, opts) ==
    IF opts.Plain THEN writePlainData(BWSamples(img))
    ELSE PackBits([ch |-> BWSamples(img), b |-> 0, bLen |-> 0, rowBits |-> 0, out |-> <<>>],
                  img.W)

encodePBM(img, opts) ==
    (IF opts.Plain THEN <<CH_P, CH_0 + 1, CH_LF>> ELSE <<CH_P, CH_0 + 4, CH_LF>>)
    \o CommentLines(opts.Comments)
    \o Dec(img.W) \o <<CH_SP>> \o Dec(img.H) \o <<CH_LF>>
    \o encodeBWData(img, opts)

encodeGrayData(img, opts) ==
    LET samples == [k \in 1..(img.W * img.H) |->
                       GrayMModelConvert(uint8(opts.MaxValue), At(img, k)).Y]
    IN IF opts.Plain THEN writePlainData(samples) ELSE writeRawData(samples, 1)

encodeGray32Data(img, opts) ==
    LET samples == [k \in 1..(img.W * img.H) |->
                       GrayM32ModelConvert(opts.MaxValue, At(img, k)).Y]
    IN IF opts.Plain THEN writePlainData(samples) ELSE writeRawData(samples, 2)

encodePGM(img, opts) ==
    (IF opts.Plain THEN <<CH_P, CH_0 + 2, CH_LF>> ELSE <<CH_P, CH_0 + 5, CH_LF>>)
    \o CommentLines(opts.Comments)
    \o Dec(img.W) \o <<CH_SP>> \o Dec(img.H) \o <<CH_LF>>
    \o Dec(opts.MaxValue) \o <<CH_LF>>
    \o (IF opts.MaxValue < 256 THEN encodeGrayData(img, opts)
        ELSE encodeGray32Data(img, opts))

\* encodeRGBData and encodeRGB64Data: three samples per pixel
encodeRGBData(img, opts) ==
    LET samples == Concat([k \in 1..(img.W * img.H) |->
                              RGBMModelConvert(uint8(opts.MaxValue), At(img, k))])
    IN IF opts.Plain THEN writePlainData(samples) ELSE writeRawData(samples, 1)

encodeRGB64Data(img, opts) ==
    LET samples == Concat([k \in 1..(img.W * img.H) |->
                              RGBM64ModelConvert(opts.MaxValue, At(img, k))])
    IN IF opts.Plain THEN writePlainData(samples) ELSE writeRawData(samples, 2)

encodePPM(img, opts) ==
    (IF opts.Plain THEN <<CH_P, CH_0 + 3, CH_LF>> ELSE <<CH_P, CH_0 + 6, CH_LF>>)
    \o CommentLines(opts.Comments)
    \o Dec(img.W) \o <<CH_SP>> \o Dec(img.H) \o <<CH_LF>>
    \o Dec(opts.MaxValue) \o <<CH_LF>>
    \o (IF opts.MaxValue < 256 THEN encodeRGBData(img, opts)
        ELSE encodeRGB64Data(img, opts))

\* encodeRGBAData and encodeRGBA64Data: four samples per pixel
encodeRGBAData(img, opts) ==
    LET samples == Concat([k \in 1..(img.W * img.H) |->
                              RGBAMModelConvert(uint8(opts.MaxValue), At(img, k))])
    IN IF opts.Plain THEN writePlainData(samples) ELSE writeRawData(samples, 1)

encodeRGBA64Data(img, opts) ==
    LET samples == Concat([k \in 1..(img.W * img.H) |->
                              RGBAMModelConvert(opts.MaxValue, At(img, k))])
    IN IF opts.Plain THEN writePlainData(samples) ELSE writeRawData(samples, 2)

\* encodePAM's depth of a tuple type
DepthOf(tt) ==
    CASE tt = TT_RGB_ALPHA -> 4
      [] tt = TT_RGB -> 3
      [] tt = TT_GRAYSCALE_ALPHA -> 2
      [] tt = TT_GRAYSCALE -> 1
      [] tt = TT_BLACKANDWHITE_ALPHA -> 2
      [] tt = TT_BLACKANDWHITE -> 1
      [] OTHER -> 1

\* the header encodePAM writes
PamHeader(img, opts) ==
    <<CH_P, CH_0 + 7, CH_LF>>
    \o CommentLines(opts.Comments)
    \o KW_WIDTH \o <<CH_SP>> \o Dec(img.W) \o <<CH_LF>>
    \o KW_HEIGHT \o <<CH_SP>> \o Dec(img.H) \o <<CH_LF>>
    \o KW_DEPTH \o <<CH_SP>> \o Dec(DepthOf(opts.TupleType)) \o <<CH_LF>>
    \o KW_MAXVAL \o <<CH_SP>> \o Dec(opts.MaxValue) \o <<CH_LF>>
    \o KW_TUPLTYPE \o <<CH_SP>> \o opts.TupleType \o <<CH_LF>>
    \o KW_ENDHDR \o <<CH_LF>>

\* encodePAM; the writers of the tuple type RGB are those of the PPM encoder
\* and the options drawn below do not ask for them
encodePAM_MagicFirst(img, opts) ==
    LET ttype == ttToInt(opts.TupleType)
        small == opts.MaxValue < 256
    IN CASE ttype = -1 ->
              [err |-> ErrUnsupportedTupleType, bytes |-> <<CH_P, CH_0 + 7, CH_LF>>]
         [] ttype = pamColorAlpha ->
              [err |-> NoErr,
               bytes |-> PamHeader(img, opts)
                         \o (IF small THEN encodeRGBAData(img, opts)
                             ELSE encodeRGBA64Data(img, opts))]
         [] OTHER -> [err |-> "panic", bytes |-> PamHeader(img, opts)]

encodePAM(img, opts) ==
    LET ttype == ttToInt(opts.TupleType)
        small == opts.MaxValue < 256
    IN CASE ttype = -1 -> [err |-> ErrUnsupportedTupleType, bytes |-> <<>>]
         [] ttype = pamColorAlpha ->
              [err |-> NoErr,
               bytes |-> PamHeader(img, opts)
                         \o (IF small THEN encodeRGBAData(img, opts)
                             ELSE encodeRGBA64Data(img, opts))]
         [] ttype = pamColor ->
              [err |-> NoErr,
               bytes |-> PamHeader(img, opts)
                         \o (IF small THEN encodeRGBData(img, opts)
                             ELSE encodeRGB64Data(img, opts))]
         [] ttype = pamGrayscale ->
              [err |-> NoErr,
               bytes |-> PamHeader(img, opts)
                         \o (IF small THEN encodeGrayData(img, opts)
                             ELSE encodeGray32Data(img, opts))]
         [] ttype = pamBlackAndWhite ->
              [err |-> NoErr, bytes |-> PamHeader(img, opts) \o encodeBWData(img, opts)]
         [] ttype \in {pamGrayscaleAlpha, pamBlackAndWhiteAlpha} ->
              [err |-> "panic", bytes |-> PamHeader(img, opts)]

\* Encode: resolve the defaults, then dispatch on the format.  The PPM
\* encoder is not reached by the options drawn below.
ErrInvalidFormat == "Invalid Netpbm format specified"

EncodeDefaults(img, opts) ==
    LET o1 == IF opts.Format = PNM
              THEN [opts EXCEPT !.Format = IF IsNetpbm(img) THEN Format(img) ELSE PAM]
              ELSE opts
        o2 == IF o1.Format = PAM /\ o1.TupleType = <<>>
              THEN [o1 EXCEPT !.TupleType = TT_RGB_ALPHA] ELSE o1
    IN IF o2.MaxValue = 0
       THEN [o2 EXCEPT !.MaxValue = IF IsNetpbm(img) THEN MaxValue(img) ELSE 255]
       ELSE o2

Encode(img, opts) ==
    LET o == EncodeDefaults(img, opts)
    IN CASE o.Format = PPM -> [err |-> NoErr, bytes |-> encodePPM(img, o)]
         [] o.Format = PGM -> [err |-> NoErr, bytes |-> encodePGM(img, o)]
         [] o.Format = PBM -> [err |-> NoErr, bytes |-> encodePBM(img, o)]
         [] o.Format = PAM -> encodePAM(img, o)
         [] o.Format \notin {PPM, PGM, PBM, PAM} ->
              [err |-> ErrInvalidFormat, bytes |-> <<>>]

\* ------------------------------------------------------------------------
\* The encoders step by step: a goroutine sends the samples on a buffered
\* channel and the caller receives them and writes
\*   e : [pc, hdr, sent, ch, closed, recv, line, buf, berr, w, err], where hdr
\*       are the header lines still to be written
\*   w : the underlying io.Writer, [out, calls, failFrom]
\* ------------------------------------------------------------------------
ErrWrite == "write failed"

\* defaultBufSize of bufio.NewWriter
BufioSize == 4096

\* w.Write(p): the call number failFrom and every later call return an error
\* and write nothing; failFrom = 0 is a writer that never fails
Write(w, p) ==
    IF w.failFrom # 0 /\ w.calls + 1 >= w.failFrom
    THEN [w |-> [w EXCEPT !.calls = @ + 1], err |-> ErrWrite]
    ELSE [w |-> [w EXCEPT !.calls = @ + 1, !.out = @ \o p], err |-> NoErr]

\* the fmt.Fprintln and fmt.Fprintf calls of the header, one Write each
HeaderWrites(img, o) ==
    IF o.Format = PGM
    THEN <<IF o.Plain THEN <<CH_P, CH_0 + 2, CH_LF>> ELSE <<CH_P, CH_0 + 5, CH_LF>>>>
         \o [i \in 1..Len(o.Comments) |-> CommentLine(o.Comments[i])]
         \o <<Dec(img.W) \o <<CH_SP>> \o Dec(img.H) \o <<CH_LF>>,
              Dec(o.MaxValue) \o <<CH_LF>>>>
    ELSE <<<<CH_P, CH_0 + 7, CH_LF>>>>
         \o [i \in 1..Len(o.Comments) |-> CommentLine(o.Comments[i])]
         \o <<KW_WIDTH \o <<CH_SP>> \o Dec(img.W) \o <<CH_LF>>,
              KW_HEIGHT \o <<CH_SP>> \o Dec(img.H) \o <<CH_LF>>,
              KW_DEPTH \o <<CH_SP>> \o Dec(DepthOf(o.TupleType)) \o <<CH_LF>>,
              KW_MAXVAL \o <<CH_SP>> \o Dec(o.MaxValue) \o <<CH_LF>>,
              KW_TUPLTYPE \o <<CH_SP>> \o o.TupleType \o <<CH_LF>>,
              KW_ENDHDR \o <<CH_LF>>>>

\* samples per pixel: encodeGrayData and encodeGray32Data send Y,
\* encodeRGBAData and encodeRGBA64Data send R, G, B, A
SamplesPerPixel(o) == IF o.Format = PGM THEN 1 ELSE 4

\* make(chan uint16, width) resp. make(chan uint16, width*3)
ChanCap(img, o) == IF o.Format = PGM THEN img.W ELSE img.W * 3

\* the sample the goroutine sends for channel c of the pixel at (x, y)
ProducerSample(img, o, x, y, c) ==
    LET px == At(img, y * img.W + x + 1)
    IN IF o.Format = PGM
       THEN (IF o.MaxValue < 256 THEN GrayMModelConvert(uint8(o.MaxValue), px).Y
             ELSE GrayM32ModelConvert(o.MaxValue, px).Y)
       ELSE (IF o.MaxValue < 256 THEN RGBAMModelConvert(uint8(o.MaxValue), px)[c + 1]
             ELSE RGBAMModelConvert(o.MaxValue, px)[c + 1])

\* samples <- s: the channel is a queue
Send_Front(ch, s) == <<s>> \o ch

Send(ch, s) == Append(ch, s)

\* wb.Flush()
BufioFlush(e) ==
    IF e.berr # NoErr THEN [e |-> e, err |-> e.berr]
    ELSE IF e.buf = <<>> THEN [e |-> e, err |-> NoErr]
    ELSE LET r == Write(e.w, e.buf)
         IN IF r.err # NoErr
            THEN [e |-> [e EXCEPT !.w = r.w, !.berr = r.err], err |-> r.err]
            ELSE [e |-> [e EXCEPT !.w = r.w, !.buf = <<>>], err |-> NoErr]

\* wb.WriteByte(b)
BufioWriteByte(e, b) ==
    IF e.berr # NoErr THEN [e |-> e, err |-> e.berr]
    ELSE IF Len(e.buf) >= BufioSize
    THEN LET f == BufioFlush(e)
         IN IF f.err # NoErr THEN f
            ELSE [e |-> [f.e EXCEPT !.buf = Append(@, b)], err |-> NoErr]
    ELSE [e |-> [e EXCEPT !.buf = Append(@, b)], err |-> NoErr]

\* return err
ReturnErr(e, err) == [e EXCEPT !.pc = "returned", !.err = err]

\* a loop that lets a line grow to LineLimit + 2 bytes
PlainStep_LongLine(e, s) ==
    LET word == Dec(s) \o <<CH_SP>>
        r == Write(e.w, EndLine(e.line))
    IN IF Len(e.line) + Len(word) <= LineLimit + 2 THEN [e EXCEPT !.line = @ \o word]
       ELSE IF r.err # NoErr THEN ReturnErr([e EXCEPT !.w = r.w], r.err)
       ELSE [e EXCEPT !.w = r.w, !.line = word]

\* the body of writePlainData's loop for the sample s
PlainStep(e, s) ==
    LET word == Dec(s) \o <<CH_SP>>
        r == Write(e.w, EndLine(e.line))
    IN IF Len(e.line) + Len(word) <= LineLimit THEN [e EXCEPT !.line = @ \o word]
       ELSE IF r.err # NoErr THEN ReturnErr([e EXCEPT !.w = r.w], r.err)
       ELSE [e EXCEPT !.w = r.w, !.line = word]

\* writePlainData after the loop
PlainFinish(e) ==
    LET r == Write(e.w, EndLine(e.line))
    IN IF e.line # <<>> THEN ReturnErr([e EXCEPT !.w = r.w, !.line = <<>>], r.err)
       ELSE ReturnErr(e, NoErr)

\* the body of writeRawData's loop for the sample s
RawStep(e, s, wd) ==
    LET hi == BufioWriteByte(e, uint8(s \div 256))
        lo == BufioWriteByte(IF wd = 2 THEN hi.e ELSE e, uint8(s))
    IN IF wd = 2 /\ hi.err # NoErr THEN ReturnErr(hi.e, hi.err)
       ELSE IF lo.err # NoErr THEN ReturnErr(lo.e, lo.err)
       ELSE lo.e

\* writeRawData after the loop: wb.Flush(), then return nil
RawFinish(e) == ReturnErr(BufioFlush(e).e, NoErr)

\* ------------------------------------------------------------------------
\* Inputs
\* ------------------------------------------------------------------------
LongWidth == 9

\* maximum values of the 8-bit and of the 16-bit images
SmallMaxvals == {1, 42, 255}
LargeMaxvals == {300, 65535}

\* sample values for a maximum value m: both ends and one value in between
\* (for a 16-bit sample one with two different non-zero bytes)
MidSample(m) == IF m >= 258 THEN 258 ELSE (m \div 2) + (m % 2)
SampleChoices(m) == {0, MidSample(m), m}

GrayKind(m) == IF m < 256 THEN "GrayM" ELSE "GrayM32"

\* the pixel bytes of a sequence of samples
PixOf(samples, wd) == writeRawData(samples, wd)

SmallDims ==
    {d \in (0..MaxPixels) \X (0..MaxPixels) : d[1] * d[2] <= MaxPixels}

\* every image of at most MaxPixels pixels over the sample values
SmallBW ==
    {[kind |-> "BW", W |-> d[1], H |-> d[2], M |-> 1, Pix |-> px] :
        d \in SmallDims, px \in UNION {[1..n -> {0, 1}] : n \in 0..MaxPixels}}

SmallGray(m) ==
    {[kind |-> GrayKind(m), W |-> d[1], H |-> d[2], M |-> m,
      Pix |-> PixOf(px, IF m < 256 THEN 1 ELSE 2)] :
        d \in SmallDims,
        px \in UNION {[1..n -> SampleChoices(m)] : n \in 0..MaxPixels}}

\* larger images whose samples follow a repeating pattern
PatternDims == {<<LongWidth, 2>>}

PatternSamples(n, m, p) ==
    [k \in 1..n |-> CASE (k + p) % 3 = 0 -> m
                      [] (k + p) % 3 = 1 -> 0
                      [] OTHER -> MidSample(m)]

PatternBW ==
    {[kind |-> "BW", W |-> d[1], H |-> d[2], M |-> 1,
      Pix |-> PatternSamples(d[1] * d[2], 1, p)] : d \in PatternDims, p \in 0..1}

PatternGray(m) ==
    {[kind |-> GrayKind(m), W |-> d[1], H |-> d[2], M |-> m,
      Pix |-> PixOf(PatternSamples(d[1] * d[2], m, p), IF m < 256 THEN 1 ELSE 2)] :
        d \in PatternDims, p \in 0..1}

\* images of the standard library (image.Gray), which are not Netpbm images
StdImages ==
    {[kind |-> "Gray", W |-> d[1], H |-> d[2], M |-> 255, Pix |-> px] :
        d \in SmallDims, px \in UNION {[1..n -> {0, 200}] : n \in 0..MaxPixels}}

WellFormed(img) == Len(img.Pix) = BytesPerPixel(img.kind) * img.W * img.H

Images ==
    {i \in SmallBW \cup PatternBW
           \cup UNION {SmallGray(m) \cup PatternGray(m) : m \in SmallMaxvals \cup LargeMaxvals} :
        WellFormed(i)}

Comment1 == <<104, 105>>

\* options that mirror the image's format and maximum value
MirrorOptions(img, plain, comments) ==
    [Format |-> Format(img), MaxValue |-> MaxValue(img), Plain |-> plain,
     TupleType |-> <<>>, Comments |-> comments]

DecodeOptionsSet ==
    [Target : {PNM, PBM, PGM, PPM, PAM}, Exact : BOOLEAN, PBMMaxValue : {0, 42, 300}]

NilDecodeOptions == [Target |-> PNM, Exact |-> FALSE, PBMMaxValue |-> 0]

\* a PAM file: the header lines encodePAM writes, then raw samples
PamFile(tt, w, h, depth, m, data) ==
    <<CH_P, CH_0 + 7, CH_LF>>
    \o KW_WIDTH \o <<CH_SP>> \o Dec(w) \o <<CH_LF>>
    \o KW_HEIGHT \o <<CH_SP>> \o Dec(h) \o <<CH_LF>>
    \o KW_DEPTH \o <<CH_SP>> \o Dec(depth) \o <<CH_LF>>
    \o KW_MAXVAL \o <<CH_SP>> \o Dec(m) \o <<CH_LF>>
    \o KW_TUPLTYPE \o <<CH_SP>> \o tt \o <<CH_LF>>
    \o KW_ENDHDR \o <<CH_LF>>
    \o data

TT_BOGUS == <<88, 89, 90>>

TupleTypes ==
    {TT_BLACKANDWHITE, TT_BLACKANDWHITE_ALPHA, TT_GRAYSCALE, TT_GRAYSCALE_ALPHA,
     TT_RGB, TT_RGB_ALPHA, TT_BOGUS}

FixtureDims == {<<1, 1>>, <<2, 1>>}

PamFiles ==
    {PamFile(tt, d[1], d[2], DepthOf(tt), m,
             PixOf(PatternSamples(d[1] * d[2] * DepthOf(tt), m, p),
                   IF m < 256 THEN 1 ELSE 2)) :
        tt \in TupleTypes, d \in FixtureDims, m \in {255, 300}, p \in 0..1}

\* a PPM file, raw (P6) or plain (P3)
PpmFile(plain, w, h, m, samples) ==
    <<CH_P, CH_0 + (IF plain THEN 3 ELSE 6), CH_LF>>
    \o Dec(w) \o <<CH_SP>> \o Dec(h) \o <<CH_LF>>
    \o Dec(m) \o <<CH_LF>>
    \o (IF plain THEN writePlainData(samples)
        ELSE writeRawData(samples, IF m < 256 THEN 1 ELSE 2))

PpmFiles ==
    {PpmFile(plain, d[1], d[2], m, PatternSamples(d[1] * d[2] * 3, m, p)) :
        plain \in BOOLEAN, d \in FixtureDims, m \in {255, 300}, p \in 0..1}

\* inputs that are not Netpbm files
BadFiles == {<<CH_P>>, <<CH_P, 88, CH_LF>>, <<81, 81, CH_LF>>, <<CH_P, CH_0 + 8, CH_LF>>}

\* the header of a P1..P6 file, given its lines after the magic number
PnmHeader(d, lines) == <<CH_P, CH_0 + d, CH_LF>> \o lines

DimsLine(w, h) == Dec(w) \o <<CH_SP>> \o Dec(h) \o <<CH_LF>>
NumLine(m) == Dec(m) \o <<CH_LF>>

\* a line "KEY value" of a PAM header
KV(key, value) == key \o <<CH_SP>> \o value \o <<CH_LF>>

\* the header of a PAM file, given its lines between the magic number and ENDHDR
PamHeaderOf(lines) == <<CH_P, CH_0 + 7, CH_LF>> \o lines \o KW_ENDHDR \o <<CH_LF>>

MinusOne == <<45, CH_0 + 1>>

\* one complete file of every format: its header, its pixel data and the
\* number of bytes at the end of the data that hold the last sample
BaseFiles ==
    {[head |-> PnmHeader(1, DimsLine(2, 1)), data |-> writePlainData(<<1, 0>>), last |-> 2],
     [head |-> PnmHeader(4, DimsLine(2, 1)), data |-> <<128>>, last |-> 1],
     [head |-> PnmHeader(2, DimsLine(3, 1) \o NumLine(255)),
      data |-> writePlainData(<<1, 25, 2>>), last |-> 2],
     [head |-> PnmHeader(5, DimsLine(2, 1) \o NumLine(255)), data |-> <<7, 200>>, last |-> 1],
     [head |-> PnmHeader(5, DimsLine(1, 1) \o NumLine(300)), data |-> <<1, 2>>, last |-> 1],
     [head |-> PnmHeader(3, DimsLine(1, 1) \o NumLine(255)),
      data |-> writePlainData(<<1, 2, 30>>), last |-> 3],
     [head |-> PnmHeader(6, DimsLine(1, 1) \o NumLine(255)), data |-> <<1, 2, 3>>, last |-> 1],
     [head |-> PamFile(TT_RGB_ALPHA, 1, 1, 4, 255, <<>>), data |-> <<1, 2, 3, 4>>, last |-> 1],
     [head |-> PamFile(TT_GRAYSCALE, 2, 1, 1, 300, <<>>), data |-> <<1, 2, 0, 9>>, last |-> 1]}

FileOf(b) == b.head \o b.data

CompleteFiles == {FileOf(b) : b \in BaseFiles}

\* the files cut in the header, or in the data so that the last sample is missing
TruncatedFiles ==
    UNION {{SubSeq(FileOf(b), 1, k) : k \in 0..(Len(FileOf(b)) - b.last)} : b \in BaseFiles}

\* the bytes of another stream following the image
Trailer == <<CH_P, CH_0 + 5, CH_LF>>

TrailerFiles == {FileOf(b) \o Trailer : b \in BaseFiles}

\* header comments: the text of each line after its '#'
CommentPayloads == << <<CH_SP, 97>>, <<CH_SP, CH_SP, 98>>, <<>>, <<CH_SP, 99, CH_SP>> >>

RECURSIVE CommentLinesOf(_)
CommentLinesOf(payloads) ==
    IF payloads = <<>> THEN <<>>
    ELSE <<CH_HASH>> \o Head(payloads) \o <<CH_LF>> \o CommentLinesOf(Tail(payloads))

\* a file of format P1..P7 whose header carries the comment lines
CommentFile(d, payloads) ==
    CASE d \in {1, 4} ->
           PnmHeader(d, CommentLinesOf(payloads) \o DimsLine(1, 1))
           \o (IF d = 1 THEN writePlainData(<<1>>) ELSE <<128>>)
      [] d \in {2, 3, 5, 6} ->
           PnmHeader(d, DimsLine(1, 1) \o CommentLinesOf(payloads) \o NumLine(255))
           \o (IF d \in {2, 3} THEN writePlainData(<<1, 2, 3>>) ELSE <<1, 2, 3>>)
      [] OTHER ->
           PamHeaderOf(CommentLinesOf(payloads) \o KV(KW_WIDTH, Dec(1))
                       \o KV(KW_HEIGHT, Dec(1)) \o KV(KW_DEPTH, Dec(1))
                       \o KV(KW_MAXVAL, Dec(255)) \o KV(KW_TUPLTYPE, TT_GRAYSCALE))
           \o <<1>>

CommentFiles == {CommentFile(d, SubSeq(CommentPayloads, 1, n)) : d \in 1..7, n \in 1..4}

\* files that end inside a comment, of the header or of the plain data
CommentCutFiles ==
    {PnmHeader(5, <<CH_HASH, 97>>),
     PnmHeader(1, DimsLine(1, 1) \o <<CH_HASH, 97>>),
     PnmHeader(2, DimsLine(2, 1) \o NumLine(255) \o <<CH_0 + 1, CH_SP, CH_HASH, 97>>),
     PnmHeader(3, DimsLine(1, 1) \o NumLine(255) \o <<CH_0 + 1, CH_SP, CH_HASH>>),
     <<CH_P, CH_0 + 7, CH_LF, CH_HASH, 97>>}

\* headers a parser has to reject
BadHeaderFiles ==
    {PnmHeader(d, DimsLine(1, 1) \o NumLine(m)) \o <<1, 2, 3, 4, 5, 6>> :
        d \in {2, 3, 5, 6}, m \in {0, 65536}}
    \cup {PamHeaderOf(KV(KW_WIDTH, Dec(1)) \o KV(KW_HEIGHT, Dec(1)) \o KV(KW_DEPTH, Dec(1))
                      \o KV(KW_MAXVAL, Dec(m)) \o KV(KW_TUPLTYPE, TT_GRAYSCALE))
           \o <<1, 2>> : m \in {0, 65536}}
    \cup {PamHeaderOf(KV(KW_WIDTH, w) \o KV(KW_HEIGHT, h) \o KV(KW_DEPTH, Dec(1))
                      \o KV(KW_MAXVAL, Dec(255)) \o KV(KW_TUPLTYPE, TT_GRAYSCALE))
           \o <<1>> : w \in {Dec(1), MinusOne}, h \in {Dec(1), MinusOne}}

\* PAM files whose DEPTH line disagrees with the tuple type, or is missing
DepthLines == {<<>>, KV(KW_DEPTH, Dec(1)), KV(KW_DEPTH, Dec(2)), KV(KW_DEPTH, Dec(3)),
               KV(KW_DEPTH, Dec(4))}

DepthFile(tt, line) ==
    PamHeaderOf(KV(KW_WIDTH, Dec(1)) \o KV(KW_HEIGHT, Dec(1)) \o line
                \o KV(KW_MAXVAL, Dec(255)) \o KV(KW_TUPLTYPE, tt))
    \o SubSeq(<<1, 2, 3, 4>>, 1, DepthOf(tt))

DepthTupleTypes == {TT_GRAYSCALE, TT_GRAYSCALE_ALPHA, TT_RGB, TT_RGB_ALPHA}

DepthFiles == {DepthFile(tt, line) : tt \in DepthTupleTypes, line \in DepthLines}

\* raw files with a sample above the maximum value
LargeSampleFiles ==
    {PnmHeader(5, DimsLine(1, 1) \o NumLine(42)) \o <<200>>,
     PnmHeader(5, DimsLine(1, 1) \o NumLine(300)) \o <<255, 255>>,
     PnmHeader(2, DimsLine(1, 1) \o NumLine(42)) \o writePlainData(<<200>>),
     PnmHeader(6, DimsLine(1, 1) \o NumLine(42)) \o <<1, 200, 3>>,
     PamFile(TT_GRAYSCALE, 1, 1, 1, 42, <<200>>)}

\* raw PBM files with every combination of three raster bytes, padding bits
\* set and clear
RawPBMDims == {<<3, 2>>, <<8, 1>>, <<LongWidth, 1>>}

RowBytes(w) == (w + 7) \div 8

RawPBMFile(w, h, raster) == PnmHeader(4, DimsLine(w, h)) \o raster

RawPBMFiles ==
    UNION {{RawPBMFile(d[1], d[2], raster) :
               raster \in [1..(RowBytes(d[1]) * d[2]) -> {0, 165, 255}]} : d \in RawPBMDims}

\* files whose maximum value or width has a comment between two of its digits
SplitHeads == {<<CH_0 + 2>>, <<CH_0 + 1, CH_0 + 2>>}
SplitTails == {<<CH_0 + 5>>, <<CH_0 + 3, CH_0 + 4>>}
SplitComments == {<<99>>, <<CH_SP, 99, CH_SP, 100>>}

SplitInt(a, cm, b) == a \o <<CH_HASH>> \o cm \o <<CH_LF>> \o b

SplitMaxvalFile(d, a, cm, b) ==
    PnmHeader(d, DimsLine(1, 1) \o SplitInt(a, cm, b) \o <<CH_LF>>)
    \o (IF d = 2 THEN writePlainData(<<7>>)
        ELSE IF DigitsValue(a \o b, 0) < 256 THEN <<7>> ELSE <<0, 7>>)

SplitWidthFile(d, cm) ==
    PnmHeader(d, SplitInt(<<CH_0 + 1>>, cm, <<CH_0 + 2>>) \o <<CH_SP, CH_0 + 1, CH_LF>>)
    \o (IF d = 1 THEN writePlainData([k \in 1..12 |-> k % 2]) ELSE <<165, 80>>)

SplitIntFiles ==
    {SplitMaxvalFile(d, a, cm, b) :
        d \in {2, 5}, a \in SplitHeads, cm \in SplitComments, b \in SplitTails}
    \cup {SplitWidthFile(d, cm) : d \in {1, 4}, cm \in SplitComments}

\* PAM files of one pixel with an alpha channel: the alpha sample is 0 or
\* the maximum value
AlphaFiles ==
    UNION {{PamFile(tt, 1, 1, DepthOf(tt), m,
                    PixOf([k \in 1..DepthOf(tt) |-> IF k = DepthOf(tt) THEN a ELSE 7],
                          IF m < 256 THEN 1 ELSE 2)) :
               tt \in {TT_GRAYSCALE_ALPHA, TT_RGB_ALPHA}, a \in {0, m}} :
           m \in {100, 65535}}

FixtureFiles ==
    AlphaFiles \cup SplitIntFiles \cup RawPBMFiles \cup PamFiles \cup PpmFiles \cup BadFiles \cup CompleteFiles \cup TruncatedFiles
    \cup TrailerFiles \cup CommentFiles \cup CommentCutFiles \cup BadHeaderFiles
    \cup DepthFiles \cup LargeSampleFiles

\* ------------------------------------------------------------------------
\* State
\*   src      : the image handed to Encode (NoImage when the file is given)
\*   eopts    : the EncodeOptions of that call
\*   file     : the bytes of the stream handed to Decode
\*   dopts    : the DecodeOptions
\*   ret      : what Decode returned (ret.br is the caller's bufio.Reader)
\*   cfg      : what DecodeConfig returned
\*   nr       : a netpbmReader on which the tokenizer functions are called
\*   tok      : the last of these calls: its name, what it returned (c, val,
\*              str or kv), the reader before the call and the number of calls
\*   out2     : the bytes of encoding the decoded image again
\*   promoted : the result of promoting the decoded grayscale image to colour
\*   phase    : "image", "file", "decoded", "reencoded", "promoted",
\*              "commented" (DecodeWithComments returned), "registered"
\*              (image.Decode returned), "config" (DecodeConfig returned),
\*              "tokens" (tokenizer calls), "hung" (a call never returns),
\*              "encoder" (an encoder and its goroutine, step by step),
\*              "opaque" (Opaque returned)
\*   opaque   : what Opaque() returned for the decoded image (phase "opaque")
\*   enc      : the encoder of that phase: where the caller is (pc), the
\*              samples sent, the channel, the samples received, the line and
\*              the bufio buffer, the underlying writer and what Encode returned
\* ------------------------------------------------------------------------
VARIABLES src, eopts, file, dopts, ret, cfg, out2, promoted, phase, nr, tok, enc, opaque

vars == <<src, eopts, file, dopts, ret, cfg, out2, promoted, phase, nr, tok, enc, opaque>>

NoOptions ==
    [Format |-> PNM, MaxValue |-> 0, Plain |-> FALSE, TupleType |-> <<>>,
     Comments |-> <<>>]

NoRet == Ret(NoImage, <<>>, NoErr, NewBufioReader(<<>>))

NoCfg == ConfigRet(CfgFail(NoErr, NewBufioReader(<<>>)))

\* colour images of one pixel; 800 is the maximum value of ExampleEncode
ColorMaxvals == {255, 800}

ColorImages ==
    {[kind |-> IF m < 256 THEN "RGBM" ELSE "RGBM64", W |-> 1, H |-> 1, M |-> m,
      Pix |-> PixOf(<<r, g, b>>, IF m < 256 THEN 1 ELSE 2)] :
        r \in {0, 7}, g \in {0, 77}, b \in {0, 255}, m \in ColorMaxvals}

\* the images and options of the calls that leave the choices to Encode
DefaultSources ==
    {i \in StdImages \cup SmallBW \cup SmallGray(42) \cup SmallGray(300) : WellFormed(i)}

DefaultOptions == {NoOptions, [NoOptions EXCEPT !.Format = PAM]}

\* options Encode has to refuse: a Format that is none of the five, and PAM
\* with a tuple type that is none of the six
InvalidOptions ==
    {[NoOptions EXCEPT !.Format = PAM + 1],
     [NoOptions EXCEPT !.Format = PNM - 1],
     [NoOptions EXCEPT !.Format = PAM, !.TupleType = TT_BOGUS]}

\* the streams the tokenizer functions are called on: digits, white space,
\* comments and letters, at most three bytes
TokenBytes == {CH_0 + 1, CH_SP, CH_HASH, CH_LF, 97}

TokenBufs == UNION {[1..n -> TokenBytes] : n \in 0..3}

NoReader == newNetpbmReader(NewBufioReader(<<>>))

NoTok == [op |-> "none", c |-> 0, val |-> 0, str |-> <<>>, kv |-> <<>>,
          prev |-> NoReader, n |-> 0]

\* the writers of the step-by-step encoders: failFrom = 0 never fails
MaxFailFrom == 4

\* a column of samples of five digits, longer than one line of plain data
TallHeight == 14

TallImages ==
    {[kind |-> "GrayM32", W |-> 1, H |-> TallHeight, M |-> 65535,
      Pix |-> PixOf([k \in 1..TallHeight |-> 65535], 2)]}

\* the images of the step-by-step encoders
EncoderImages ==
    {i \in SmallGray(255) \cup SmallGray(65535) \cup PatternGray(65535) \cup TallImages :
        WellFormed(i) /\ i.W * i.H >= 1}

\* PGM, and for the images of at most MaxPixels pixels also PAM with the
\* tuple type RGB_ALPHA
EncoderOptions(img) ==
    {[Format |-> f, MaxValue |-> img.M, Plain |-> plain, TupleType |-> <<>>,
      Comments |-> <<>>] :
        f \in IF img.W * img.H <= MaxPixels THEN {PGM, PAM} ELSE {PGM},
        plain \in BOOLEAN}

NoWriter == [out |-> <<>>, calls |-> 0, failFrom |-> 0]

NoEncoder ==
    [pc |-> "idle", hdr |-> <<>>, sent |-> 0, ch |-> <<>>, closed |-> FALSE, recv |-> <<>>,
     line |-> <<>>, buf |-> <<>>, berr |-> NoErr, w |-> NoWriter, err |-> NoErr]

InitCodec ==
    \/ /\ phase = "image"
       /\ src \in Images
       /\ \E plain \in BOOLEAN, cm \in {<<>>, <<Comment1>>} :
             eopts = MirrorOptions(src, plain, cm)
       /\ file = <<>>
    \/ /\ phase = "image"
       /\ src \in DefaultSources
       /\ eopts \in DefaultOptions \cup InvalidOptions
       /\ file = <<>>
    \/ /\ phase = "image"
       /\ src \in ColorImages
       /\ \E plain \in BOOLEAN : eopts = MirrorOptions(src, plain, <<>>)
       /\ file = <<>>
    \/ /\ phase = "file"
       /\ src = NoImage
       /\ eopts = NoOptions
       /\ file \in FixtureFiles

Init ==
    /\ \/ /\ InitCodec
          /\ nr = NoReader
          /\ enc = NoEncoder
       \/ /\ phase = "encoder"
          /\ src \in EncoderImages
          /\ eopts \in EncoderOptions(src)
          /\ file = <<>>
          /\ nr = NoReader
          /\ \E k \in 0..MaxFailFrom :
                enc = [NoEncoder EXCEPT !.pc = "header", !.w.failFrom = k,
                                        !.hdr = HeaderWrites(src, EncodeDefaults(src, eopts))]
       \/ /\ phase = "tokens"
          /\ src = NoImage
          /\ eopts = NoOptions
          /\ file = <<>>
          /\ \E b \in TokenBufs : nr = newNetpbmReader(NewBufioReader(b))
          /\ enc = NoEncoder
    /\ tok = NoTok
    /\ opaque = FALSE
    /\ dopts = NilDecodeOptions
    /\ ret = NoRet
    /\ cfg = NoCfg
    /\ out2 = <<>>
    /\ promoted = NoImage

\* Encode(w, src, &eopts) into an empty buffer
EncodeImage ==
    /\ phase = "image"
    /\ file' = Encode(src, eopts).bytes
    /\ phase' = "file"
    /\ UNCHANGED <<src, eopts, dopts, ret, out2, promoted, cfg, nr, tok, enc, opaque>>

\* Decode(bufio.NewReader(file), &opts)
DecodeFile ==
    /\ phase = "file"
    /\ \E o \in DecodeOptionsSet :
          /\ dopts' = o
          /\ ret' = Decode(NewBufioReader(file), o)
    /\ phase' = "decoded"
    /\ UNCHANGED <<src, eopts, file, out2, promoted, cfg, nr, tok, enc, opaque>>

\* encode the decoded image again, with the options of the first encoding
ReEncode ==
    /\ phase = "decoded"
    /\ src # NoImage
    /\ ret.out = "return" /\ ret.err = NoErr
    /\ ret.img.kind \in {"BW", "GrayM", "GrayM32"}
    /\ out2' = Encode(ret.img, MirrorOptions(ret.img, eopts.Plain, eopts.Comments)).bytes
    /\ phase' = "reencoded"
    /\ UNCHANGED <<src, eopts, file, dopts, ret, promoted, cfg, nr, tok, enc, opaque>>

\* promote a decoded grayscale image to colour by calling its method
PromoteGray ==
    /\ phase = "decoded"
    /\ ret.out = "return" /\ ret.err = NoErr
    /\ ret.img.kind \in {"GrayM", "GrayM32"}
    /\ promoted' = IF ret.img.kind = "GrayM" THEN PromoteToRGBM(ret.img)
                   ELSE PromoteToRGBM64(ret.img)
    /\ phase' = "promoted"
    /\ UNCHANGED <<src, eopts, file, dopts, ret, out2, cfg, nr, tok, enc, opaque>>

\* DecodeWithComments(bufio.NewReader(file), nil)
DecodeFileWithComments ==
    /\ phase = "file"
    /\ ret' = DecodeWithComments(NewBufioReader(file), NilDecodeOptions)
    /\ phase' = "commented"
    /\ UNCHANGED <<src, eopts, file, dopts, out2, promoted, cfg, nr, tok, enc, opaque>>

\* image.Decode(bufio.NewReader(file))
DecodeRegistered ==
    /\ phase = "file"
    /\ ret' = ImageDecode(NewBufioReader(file))
    /\ phase' = "registered"
    /\ UNCHANGED <<src, eopts, file, dopts, out2, promoted, cfg, nr, tok, enc, opaque>>

\* DecodeConfig(bufio.NewReader(file))
DecodeConfigFile ==
    /\ phase = "file"
    /\ cfg' = DecodeConfig(NewBufioReader(file))
    /\ phase' = "config"
    /\ UNCHANGED <<src, eopts, file, dopts, ret, out2, promoted, nr, tok, enc, opaque>>

\* one tokenizer call on nr; a call that never returns ends the sequence
TokenCall(op, r) ==
    /\ phase = "tokens"
    /\ tok.n < MaxOps
    /\ nr' = r.nr
    /\ tok' = [op |-> op,
               c |-> IF op = "GetNextByteAsRune" THEN r.c ELSE 0,
               val |-> IF op = "GetNextInt" THEN r.val ELSE 0,
               str |-> IF op = "GetNextString" THEN r.str ELSE <<>>,
               kv |-> IF op = "GetLineAsKeyValue" THEN r.kv ELSE <<>>,
               prev |-> nr, n |-> tok.n + 1]
    /\ phase' = IF op \in {"GetNextInt", "GetNextString"} /\ r.hang THEN "hung" ELSE "tokens"
    /\ UNCHANGED <<src, eopts, file, dopts, ret, cfg, out2, promoted, enc, opaque>>

CallGetNextByteAsRune == TokenCall("GetNextByteAsRune", GetNextByteAsRune(nr))

CallGetNextInt == TokenCall("GetNextInt", GetNextInt(nr))

CallGetNextString == TokenCall("GetNextString", GetNextString(nr))

CallGetLineAsKeyValue == TokenCall("GetLineAsKeyValue", GetLineAsKeyValue(nr))

\* the options after Encode has resolved the defaults
EncoderOpts == EncodeDefaults(src, eopts)

NumSamples == src.W * src.H * SamplesPerPixel(EncoderOpts)

\* Encode up to the start of the goroutine: the next fmt.Fprintln or
\* fmt.Fprintf of the header, whose result is not looked at; after the last
\* of them the channel is made and the goroutine started
EncodeHeader ==
    /\ phase = "encoder"
    /\ enc.pc = "header"
    /\ enc' = [enc EXCEPT !.w = Write(@, Head(enc.hdr)).w,
                           !.hdr = Tail(@),
                           !.pc = IF Tail(enc.hdr) = <<>> THEN "loop" ELSE "header"]
    /\ UNCHANGED <<src, eopts, file, dopts, ret, cfg, out2, promoted, phase, nr, tok, opaque>>

\* the goroutine sends the next sample: for y, for x, for each channel
ProducerSend ==
    /\ phase = "encoder"
    /\ enc.pc # "header"
    /\ enc.sent < NumSamples
    /\ Len(enc.ch) < ChanCap(src, EncoderOpts)
    /\ LET n == SamplesPerPixel(EncoderOpts)
           p == enc.sent \div n
           s == ProducerSample(src, EncoderOpts, p % src.W, p \div src.W, enc.sent % n)
       IN enc' = [enc EXCEPT !.ch = Send(@, s), !.sent = @ + 1]
    /\ UNCHANGED <<src, eopts, file, dopts, ret, cfg, out2, promoted, phase, nr, tok, opaque>>

\* close(samples)
ProducerClose ==
    /\ phase = "encoder"
    /\ enc.pc # "header"
    /\ enc.sent = NumSamples
    /\ ~enc.closed
    /\ enc' = [enc EXCEPT !.closed = TRUE]
    /\ UNCHANGED <<src, eopts, file, dopts, ret, cfg, out2, promoted, phase, nr, tok, opaque>>

\* for s := range ch: one sample is received and handled
WriterReceive ==
    /\ phase = "encoder"
    /\ enc.pc = "loop"
    /\ enc.ch # <<>>
    /\ LET s == Head(enc.ch)
           e == [enc EXCEPT !.ch = Tail(@), !.recv = Append(@, s)]
       IN enc' = IF EncoderOpts.Plain THEN PlainStep(e, s)
                 ELSE RawStep(e, s, IF EncoderOpts.MaxValue < 256 THEN 1 ELSE 2)
    /\ UNCHANGED <<src, eopts, file, dopts, ret, cfg, out2, promoted, phase, nr, tok, opaque>>

\* the channel is closed and empty: the loop ends and the writer returns
WriterFinish ==
    /\ phase = "encoder"
    /\ enc.pc = "loop"
    /\ enc.ch = <<>>
    /\ enc.closed
    /\ enc' = IF EncoderOpts.Plain THEN PlainFinish(enc) ELSE RawFinish(enc)
    /\ UNCHANGED <<src, eopts, file, dopts, ret, cfg, out2, promoted, phase, nr, tok, opaque>>

\* ret.img.Opaque() on a decoded image that has an alpha channel
CallOpaque ==
    /\ phase = "decoded"
    /\ ret.out = "return" /\ ret.err = NoErr
    /\ HasAlpha(ret.img)
    /\ opaque' = Opaque(ret.img)
    /\ phase' = "opaque"
    /\ UNCHANGED <<src, eopts, file, dopts, ret, cfg, out2, promoted, nr, tok, enc>>

\* the steps of an encoder and of its goroutine
EncoderNext ==
    \/ EncodeHeader
    \/ ProducerSend
    \/ ProducerClose
    \/ WriterReceive
    \/ WriterFinish

Next ==
    \/ EncoderNext
    \/ CallOpaque
    \/ CallGetNextByteAsRune
    \/ CallGetNextInt
    \/ CallGetNextString
    \/ CallGetLineAsKeyValue
    \/ EncodeImage
    \/ DecodeFile
    \/ ReEncode
    \/ PromoteGray
    \/ DecodeFileWithComments
    \/ DecodeRegistered
    \/ DecodeConfigFile

Spec == Init /\ [][Next]_vars

\* the encoders alone, with the goroutine and the caller both scheduled: as
\* long as one of them can take a step, a step is taken (every step consumes
\* a sample or ends a loop, so neither can run forever)
EncoderInit == Init /\ phase = "encoder"

FairSpec == EncoderInit /\ [][EncoderNext]_vars /\ WF_vars(EncoderNext)

\* ------------------------------------------------------------------------
\* Properties
\* ------------------------------------------------------------------------

\* Decode(bufio.NewReader(file), nil): the image in the format of the file
Native == Decode(NewBufioReader(file), NilDecodeOptions)

\* a call that returned an image and a nil error
Succeeded(r) == r.out = "return" /\ r.err = NoErr /\ r.img # NoImage

C2_PromotionReachesTarget ==
    (phase = "decoded" /\ ~dopts.Exact /\ dopts.Target \in {PGM, PPM}
        /\ Succeeded(Native)
        /\ Format(Native.img) \in {PBM, PGM}
        /\ Format(Native.img) <= dopts.Target)
       => /\ Succeeded(ret)
          /\ Format(ret.img) = dopts.Target

\* C3: demotion is rejected. With Exact=false and a Target in {PBM, PGM, PPM}
\* strictly below the decoded image's Format(), Decode returns a
\* "Cannot demote" error and no image.
C3_DemotionRejected ==
    (phase = "decoded" /\ ~dopts.Exact /\ dopts.Target \in {PBM, PGM, PPM}
        /\ Succeeded(Native)
        /\ Format(Native.img) > dopts.Target)
       => /\ ret.out = "return"
          /\ ret.err = ErrCannotDemote
          /\ ret.img = NoImage

\* a grayscale or colour file asked for as a bitmap or as grayscale: refused
C3_Witness ==
    /\ phase = "decoded"
    /\ ~dopts.Exact
    /\ Succeeded(Native)
    /\ Format(Native.img) = PPM
    /\ dopts.Target = PGM
    /\ ret.err = ErrCannotDemote

\* C4: bitmap to grayscale maps every bit s to (1 - s) * M, with M the
\* PBMMaxValue (255 when 0); the result has maximum value M, 8-bit samples
\* when M <= 255 and 16-bit big-endian samples when M > 255. Promoted on to
\* colour with M = 42, a bit-0 pixel has R = G = B = 42 and maximum value 42.
C4_BitmapToGray ==
    LET bw == Native.img
        n == bw.W * bw.H
        M == IF dopts.PBMMaxValue = 0 THEN 255 ELSE dopts.PBMMaxValue
        g == ret.img
    IN (phase = "decoded" /\ ~dopts.Exact /\ Succeeded(Native) /\ bw.kind = "BW")
       => /\ dopts.Target = PGM
             => /\ Succeeded(ret)
                /\ g.W = bw.W /\ g.H = bw.H
                /\ MaxValue(g) = M
                /\ M <= 255
                      => /\ g.kind = "GrayM"
                         /\ Len(g.Pix) = n
                         /\ \A k \in 1..n : g.Pix[k] = (1 - bw.Pix[k]) * M
                /\ M > 255
                      => /\ g.kind = "GrayM32"
                         /\ Len(g.Pix) = 2 * n
                         /\ \A k \in 1..n :
                               /\ g.Pix[2 * k - 1] = ((1 - bw.Pix[k]) * M) \div 256
                               /\ g.Pix[2 * k] = ((1 - bw.Pix[k]) * M) % 256
          /\ (dopts.Target = PPM /\ M = 42)
             => /\ Succeeded(ret)
                /\ g.kind = "RGBM"
                /\ MaxValue(g) = 42
                /\ Len(g.Pix) = 3 * n
                /\ \A k \in 1..n :
                      bw.Pix[k] = 0
                         => (g.Pix[3 * k - 2] = 42 /\ g.Pix[3 * k - 1] = 42
                                /\ g.Pix[3 * k] = 42)

\* a bitmap holding both bit values that became a 16-bit grayscale image
C4_Witness ==
    /\ phase = "decoded"
    /\ src.kind = "BW"
    /\ \E j, k \in 1..Len(src.Pix) : src.Pix[j] = 0 /\ src.Pix[k] = 1
    /\ dopts = [Target |-> PGM, Exact |-> FALSE, PBMMaxValue |-> 300]
    /\ Succeeded(ret)
    /\ ret.img.kind = "GrayM32"
    /\ \E k \in 1..Len(src.Pix) : ret.img.Pix[2 * k - 1] = 1 /\ ret.img.Pix[2 * k] = 44

\* C5 as the specification words it: with Target=PGM, PBMMaxValue=42 and
\* Exact=false a bitmap decodes to a grayscale image of maximum value 42 in
\* which every white pixel (bit 0) has sample 0 and every black pixel (bit 1)
\* has sample 42.
C5_WhiteIsZero ==
    LET bw == Native.img
        g == ret.img
    IN (phase = "decoded" /\ Succeeded(Native) /\ bw.kind = "BW"
           /\ dopts = [Target |-> PGM, Exact |-> FALSE, PBMMaxValue |-> 42])
       => /\ Succeeded(ret)
          /\ Format(g) = PGM
          /\ MaxValue(g) = 42
          /\ \A k \in 1..(bw.W * bw.H) :
                /\ bw.Pix[k] = 0 => SampleAt(g, k) = 0
                /\ bw.Pix[k] = 1 => SampleAt(g, k) = 42

\* C5: with Target=PGM, PBMMaxValue=42 and Exact=false a bitmap decodes to a
\* grayscale image of maximum value 42 in which every white pixel (bit 0) has
\* sample 42 and every black pixel (bit 1) has sample 0.
C5_WhiteIsMaxval ==
    LET bw == Native.img
        g == ret.img
    IN (phase = "decoded" /\ Succeeded(Native) /\ bw.kind = "BW"
           /\ dopts = [Target |-> PGM, Exact |-> FALSE, PBMMaxValue |-> 42])
       => /\ Succeeded(ret)
          /\ Format(g) = PGM
          /\ MaxValue(g) = 42
          /\ Len(g.Pix) = bw.W * bw.H
          /\ \A k \in 1..(bw.W * bw.H) :
                /\ bw.Pix[k] = 0 => SampleAt(g, k) = 42
                /\ bw.Pix[k] = 1 => SampleAt(g, k) = 0

\* a bitmap with a white and a black pixel decoded with PBMMaxValue=42
C5_Witness ==
    /\ phase = "decoded"
    /\ src.kind = "BW"
    /\ \E j, k \in 1..Len(src.Pix) : src.Pix[j] = 0 /\ src.Pix[k] = 1
    /\ dopts = [Target |-> PGM, Exact |-> FALSE, PBMMaxValue |-> 42]
    /\ Succeeded(ret)
    /\ \E j, k \in 1..Len(ret.img.Pix) : ret.img.Pix[j] = 42 /\ ret.img.Pix[k] = 0

\* C6: grayscale to colour copies each gray sample unchanged into R, G and B
\* of its pixel (both bytes of a 16-bit sample), keeping the maximum value and
\* the sample width; so promoting a bitmap to grayscale and that image to
\* colour gives the image of one Decode with Target=PPM.
C6_GrayToColor ==
    LET g == ret.img
        n == g.W * g.H
        c == promoted
        oneStep == Decode(NewBufioReader(file), [dopts EXCEPT !.Target = PPM])
    IN phase = "promoted"
       => /\ c.W = g.W /\ c.H = g.H
          /\ MaxValue(c) = MaxValue(g)
          /\ Format(c) = PPM
          /\ SampleWidth(c) = SampleWidth(g)
          /\ Len(c.Pix) = 3 * Len(g.Pix)
          /\ \A k \in 1..n : \A ch \in 1..3 :
                /\ SampleAt(c, 3 * (k - 1) + ch) = SampleAt(g, k)
                /\ SampleWidth(g) = 2
                      => /\ c.Pix[6 * (k - 1) + 2 * ch - 1] = g.Pix[2 * k - 1]
                         /\ c.Pix[6 * (k - 1) + 2 * ch] = g.Pix[2 * k]
          /\ (Succeeded(Native) /\ Native.img.kind = "BW"
                 /\ dopts.Target = PGM /\ ~dopts.Exact)
             => (Succeeded(oneStep) /\ oneStep.img = c)

\* a bitmap of two pixels or more promoted to 16-bit grayscale by Decode and
\* then to colour by PromoteToRGBM64
C6_Witness ==
    /\ phase = "promoted"
    /\ src.kind = "BW"
    /\ src.W * src.H >= 2
    /\ dopts.Target = PGM /\ ~dopts.Exact
    /\ ret.img.kind = "GrayM32"
    /\ promoted.kind = "RGBM64"
    /\ \E j \in 1..Len(promoted.Pix) : promoted.Pix[j] = 44

\* C7: with Exact=true, Decode fails exactly when the decoded image's
\* Format() differs from Target: a PAM file of tuple type RGB asked for with
\* Target=PPM succeeds with Format() PPM, one of tuple type GRAYSCALE_ALPHA
\* asked for with Target=PGM succeeds with Format() PGM.
C7_ExactMatchesFormat ==
    (phase = "decoded" /\ dopts.Exact /\ dopts.Target # PNM /\ Succeeded(Native))
       => /\ Succeeded(ret) <=> (Format(Native.img) = dopts.Target)
          /\ Succeeded(ret) => Format(ret.img) = dopts.Target

\* C8: Exact=true with Target=PNM, on an input whose first two bytes can be
\* peeked and start with 'P', returns the configuration error and no image,
\* and no byte of the stream has been consumed.
C8_ExactPNMRejected ==
    (phase = "decoded" /\ dopts.Exact /\ dopts.Target = PNM
        /\ Len(file) >= 2 /\ file[1] = CH_P)
       => /\ ret.out = "return"
          /\ ret.err = ErrExactPNM
          /\ ret.img = NoImage
          /\ ret.br.pos = 0

\* a well-formed grayscale file refused for Exact=true with Target=PNM
C8_Witness ==
    /\ phase = "decoded"
    /\ dopts.Exact /\ dopts.Target = PNM
    /\ src # NoImage /\ src.kind = "GrayM" /\ src.W * src.H > 0
    /\ Succeeded(Native)
    /\ ret.err = ErrExactPNM

\* C9: Target=PAM with Exact=false on a well-formed PBM or PGM file returns
\* without error the image in its native format: no promotion, no failure.
C9_PAMTargetKeepsNative ==
    (phase = "decoded" /\ dopts.Target = PAM /\ ~dopts.Exact
        /\ Len(file) >= 2 /\ file[2] - CH_0 \in {1, 2, 4, 5}
        /\ Succeeded(Native))
       => /\ Succeeded(ret)
          /\ ret.img = Native.img

\* C10: a PAM file of TUPLTYPE RGB_ALPHA, DEPTH 4, MAXVAL 255 is decoded four
\* bytes per pixel; asked for with Target=PPM and Exact=false the alpha sample
\* is stripped and a 3-channel colour image without alpha is returned.
C10_AlphaStripped ==
    LET n == Native.img.W * Native.img.H
    IN (phase = "decoded"
           /\ \E d \in FixtureDims, p \in 0..1 :
                 file = PamFile(TT_RGB_ALPHA, d[1], d[2], 4, 255,
                                PixOf(PatternSamples(d[1] * d[2] * 4, 255, p), 1)))
       => /\ Succeeded(Native)
          /\ Len(Native.img.Pix) = 4 * n
          /\ (dopts.Target = PPM /\ ~dopts.Exact)
                => /\ Succeeded(ret)
                   /\ Format(ret.img) = PPM
                   /\ ~HasAlpha(ret.img)
                   /\ Channels(ret.img) = 3
                   /\ Len(ret.img.Pix) = 3 * n

\* C11: range invariant. For every image a successful Decode returns (plain
\* or raw file, any format, promoted or not), every sample lies in
\* [0, maxval] of that image and maxval lies in [1, 65535].
C11_SamplesInRange ==
    (phase = "decoded" /\ Succeeded(ret))
       => /\ MaxValue(ret.img) \in 1..65535
          /\ \A k \in 1..(ret.img.W * ret.img.H * Channels(ret.img)) :
                SampleAt(ret.img, k) \in 0..MaxValue(ret.img)

\* C12: header invariant. Every header the parser accepts, of a P1..P6 file
\* (GetNetpbmHeader) or of a P7 file (GetPamHeader), has a maximum value in
\* [1, 65535] (exactly 1 for P1 and P4) and a non-negative width and height;
\* a header violating this is rejected.
C12_HeaderInvariant ==
    (phase = "config" /\ cfg.out = "return" /\ cfg.err = NoErr)
       => /\ cfg.M \in 1..65535
          /\ (file[2] - CH_0 \in {1, 4} => cfg.M = 1)
          /\ cfg.Width >= 0
          /\ cfg.Height >= 0

\* C13: in a PAM file the DEPTH has to agree with the tuple type (RGB_ALPHA
\* 4, RGB 3, GRAYSCALE_ALPHA 2, GRAYSCALE 1): a header whose DEPTH line
\* disagrees with its TUPLTYPE, or is missing, is not decoded as an image.
C13_DepthMatchesTupleType ==
    \A tt \in DepthTupleTypes, line \in DepthLines :
        (phase = "decoded" /\ file = DepthFile(tt, line)
            /\ line # KV(KW_DEPTH, Dec(DepthOf(tt))))
           => ~Succeeded(ret)

\* C14: a PAM file with a valid header and complete pixel data decodes
\* successfully if and only if its TUPLTYPE is one of the six recognised
\* values, at 8-bit and at 16-bit maximum values; for any other tuple type
\* decoding returns the error "Unsupported tuple type" quoting the string.
C14_RecognisedTupleTypes ==
    \A tt \in TupleTypes, d \in FixtureDims, m \in {255, 300}, p \in 0..1 :
        (phase = "decoded" /\ dopts = NilDecodeOptions
            /\ file = PamFile(tt, d[1], d[2], DepthOf(tt), m,
                              PixOf(PatternSamples(d[1] * d[2] * DepthOf(tt), m, p),
                                    IF m < 256 THEN 1 ELSE 2)))
           => /\ Succeeded(ret) <=> tt # TT_BOGUS
              /\ tt = TT_BOGUS
                    => /\ ret.out = "return"
                       /\ ret.img = NoImage
                       /\ ret.err = ErrUnsupportedTupleType
                       /\ ret.detail = tt

\* what is left of a comment line after its '#': one whitespace character
\* less at the front, everything else kept
PayloadText(payload) ==
    IF payload # <<>> /\ IsSpace(Head(payload)) THEN Tail(payload) ELSE payload

\* C15: comment preservation. For every format (P1..P6 and P7)
\* DecodeWithComments returns the comments of the header in their order,
\* each without its '#', without exactly one following whitespace character
\* and without its line terminator, every other character kept (further
\* leading spaces too); an empty comment line gives the empty string.
C15_CommentsPreserved ==
    \A d \in 1..7, n \in 1..Len(CommentPayloads) :
        (phase = "commented" /\ file = CommentFile(d, SubSeq(CommentPayloads, 1, n)))
           => /\ Succeeded(ret)
              /\ ret.comments = [k \in 1..n |-> PayloadText(CommentPayloads[k])]

\* C16: truncated data is fatal. For every input that ends before the header
\* is complete or before width x height x channels samples have been
\* supplied (plain or raw), Decode returns an error and never a successfully
\* decoded image.
C16_TruncatedIsFatal ==
    (phase = "decoded" /\ file \in TruncatedFiles) => ~Succeeded(ret)

\* C17: termination. For every finite input, one that ends inside a '#'
\* comment of the header or of the plain pixel data included, Decode and
\* DecodeConfig terminate: neither call loops for ever.
C17_Terminates ==
    /\ phase = "decoded" => ret.out # "hang"
    /\ phase = "config" => cfg.out # "hang"

\* C18: no partial result. Whenever a decode entry point (Decode,
\* DecodeWithComments, or a decoder registered with image.RegisterFormat for
\* P1..P7) returns a non-nil error, the image it returns is nil, and so is
\* the list of comments.
C18_NoPartialResult ==
    (phase \in {"decoded", "commented", "registered"}
        /\ ret.out = "return" /\ ret.err # NoErr)
       => /\ ret.img = NoImage
          /\ ret.comments = <<>>

\* the header of the complete file that the stream starts with
BaseOf(f) ==
    CHOOSE b \in BaseFiles : f = FileOf(b) \/ f = FileOf(b) \o Trailer

\* C19: no over-read. With a *bufio.Reader from the caller, a successful
\* DecodeConfig leaves it at the first byte after the header (one whitespace
\* byte consumed after the last header integer), and a successful Decode
\* leaves it at the first byte after the last pixel byte of the image, for
\* every format, raw PBM included: the data after the image can still be read.
C19_NoOverRead ==
    (file \in CompleteFiles \cup TrailerFiles)
       => /\ (phase = "config" /\ cfg.out = "return" /\ cfg.err = NoErr)
                => cfg.br.pos = Len(BaseOf(file).head)
          /\ (phase = "decoded" /\ Succeeded(ret))
                => ret.br.pos <= Len(FileOf(BaseOf(file)))

\* C20: Encode defaults. With Format left as PNM (or nil options) Encode
\* uses the image's own Format() for a Netpbm Image and PPM for any other
\* image; with MaxValue left 0 it uses the image's MaxValue() for a Netpbm
\* Image and 255 otherwise; when the format is PAM and TupleType is empty it
\* uses RGB_ALPHA. The file written starts with the magic number of that
\* format.
C20_EncodeDefaults ==
    (phase = "file" /\ src # NoImage /\ eopts \in DefaultOptions)
       => /\ eopts.Format = PNM
                => /\ EncodeDefaults(src, eopts).Format
                         = (IF IsNetpbm(src) THEN Format(src) ELSE PPM)
                   /\ file[2] - CH_0 = 3 + (IF IsNetpbm(src) THEN Format(src) ELSE PPM)
          /\ EncodeDefaults(src, eopts).MaxValue
                = (IF IsNetpbm(src) THEN MaxValue(src) ELSE 255)
          /\ EncodeDefaults(src, eopts).Format = PAM
                => EncodeDefaults(src, eopts).TupleType = TT_RGB_ALPHA

\* C21: invalid encode configuration. Encode called with a Format outside
\* {PNM, PBM, PGM, PPM, PAM}, or with Format PAM and a TupleType that is none
\* of the six recognised strings, returns an error and has written no byte.
C21_InvalidOptionsRefused ==
    (phase = "file" /\ src # NoImage /\ eopts \in InvalidOptions)
       => /\ Encode(src, eopts).err
                = (IF eopts.Format = PAM THEN ErrUnsupportedTupleType ELSE ErrInvalidFormat)
          /\ file = <<>>

\* Encode has refused a PAM image with an unknown tuple type
C21_Witness ==
    /\ phase = "file" /\ src # NoImage /\ src.W > 0 /\ src.H > 0
    /\ eopts.Format = PAM /\ eopts.TupleType = TT_BOGUS
    /\ Encode(src, eopts).err = ErrUnsupportedTupleType
    /\ file = <<>>

\* the file the plain encoding of a 1x1 colour image with maximum value 800
\* starts with: the lines "P3", "1 1", "800" and the three unscaled samples,
\* each but the last followed by a space
PlainPixelPrefix(img) ==
    PnmHeader(3, DimsLine(1, 1) \o NumLine(800))
    \o Dec(SampleAt(img, 1)) \o <<CH_SP>> \o Dec(SampleAt(img, 2)) \o <<CH_SP>>
    \o Dec(SampleAt(img, 3))

\* C22: the plain encoding of a 1x1 colour image with maximum value 800 is
\* the header lines "P3", "1 1", "800" and one data line with the three
\* unscaled decimal channel values separated by single spaces; the newline
\* follows the last value directly (it replaces the space written after it).
C22_PlainPixelLine ==
    (phase = "file" /\ src \in ColorImages /\ src.M = 800 /\ eopts.Plain)
       => file = PlainPixelPrefix(src) \o <<CH_LF>>

\* C22 as stated: every value, the last one too, is followed by a space, so
\* that a trailing space precedes the newline.
C22_TrailingSpace ==
    (phase = "file" /\ src \in ColorImages /\ src.M = 800 /\ eopts.Plain)
       => file = PlainPixelPrefix(src) \o <<CH_SP, CH_LF>>

\* the pixel (7, 77, 255) at maximum value 800 has been written in plain PPM
C22_Witness ==
    /\ phase = "file" /\ src \in ColorImages /\ src.M = 800 /\ eopts.Plain
    /\ <<SampleAt(src, 1), SampleAt(src, 2), SampleAt(src, 3)>> = <<7, 77, 255>>
    /\ Len(file) > Len(PlainPixelPrefix(src))

\* the raster of a raw PBM file of width w and height h
RasterOf(f, w, h) == SubSeq(f, Len(f) - RowBytes(w) * h + 1, Len(f))

\* C23: raw PBM decode. For a P4 file of width W > 0 and height H > 0 each
\* row occupies ceil(W/8) bytes, and pixel (x, y) is bit (7 - x mod 8) of
\* byte y * ceil(W/8) + floor(x/8) of the raster (most significant bit
\* first); the padding bits at the end of a row never become pixels, and the
\* result is a W x H image with maximum value 1.
C23_RawPBMBits ==
    \A d \in RawPBMDims :
        (phase = "decoded" /\ dopts = NilDecodeOptions
            /\ Len(file) = Len(PnmHeader(4, DimsLine(d[1], d[2]))) + RowBytes(d[1]) * d[2]
            /\ file = RawPBMFile(d[1], d[2], RasterOf(file, d[1], d[2])))
           => /\ Succeeded(ret)
              /\ ret.img.kind = "BW"
              /\ ret.img.W = d[1] /\ ret.img.H = d[2]
              /\ MaxValue(ret.img) = 1
              /\ Len(ret.img.Pix) = d[1] * d[2]
              /\ \A x \in 0..(d[1] - 1), y \in 0..(d[2] - 1) :
                    ret.img.Pix[y * d[1] + x + 1]
                       = (RasterOf(file, d[1], d[2])[y * RowBytes(d[1]) + (x \div 8) + 1]
                             \div Pow2(7 - (x % 8))) % 2

\* a 3x2 file whose two raster bytes differ in the bits of the first row and
\* have padding bits set has been decoded
C23_Witness ==
    /\ phase = "decoded" /\ dopts = NilDecodeOptions
    /\ file = RawPBMFile(3, 2, <<165, 255>>)
    /\ Succeeded(ret)
    /\ ret.img.Pix = <<1, 0, 1, 1, 1, 1>>

\* C24: sticky tokenizer error. After any sequence of calls of
\* GetNextByteAsRune, GetNextInt, GetNextString and GetLineAsKeyValue, once
\* Err() is non-nil it stays non-nil and equal to the first error, and every
\* later call returns the zero value (0, -1, the empty string, nil) and
\* neither consumes nor restores input.
C24_StickyError ==
    (phase \in {"tokens", "hung"} /\ tok.n > 0 /\ tok.prev.err # NoErr)
       => /\ phase = "tokens"
          /\ nr = tok.prev
          /\ tok.op = "GetNextByteAsRune" => tok.c = 0
          /\ tok.op = "GetNextInt" => tok.val = -1
          /\ tok.op = "GetNextString" => tok.str = <<>>
          /\ tok.op = "GetLineAsKeyValue" => tok.kv = <<>>

\* GetNextInt has been called on a reader that had read the digit 1 and
\* then failed with io.EOF
C24_Witness ==
    /\ phase = "tokens" /\ tok.n = 3
    /\ tok.op = "GetNextInt"
    /\ tok.prev.err = EOF /\ tok.prev.pos = 1 /\ tok.prev.buf = <<CH_0 + 1>>
    /\ nr.err = EOF /\ tok.val = -1

\* the samples of src from top to bottom and from left to right, the channels
\* of each pixel together
RowMajorSamples ==
    Concat([y \in 1..src.H |->
              Concat([x \in 1..src.W |->
                        [c \in 1..SamplesPerPixel(EncoderOpts) |->
                            ProducerSample(src, EncoderOpts, x - 1, y - 1, c - 1)]])])

\* C25: encoder output order. With a writer that never fails, in every
\* interleaving of the goroutine and the caller the samples received so far
\* followed by those waiting in the channel are the first samples of the
\* image in row-major order with the channels interleaved, and when Encode
\* has returned, the writer has received width x height x channels samples
\* and holds the bytes of the synchronous encoding.
C25_OutputOrder ==
    (phase = "encoder" /\ enc.w.failFrom = 0)
       => /\ enc.recv \o enc.ch = SubSeq(RowMajorSamples, 1, enc.sent)
          /\ enc.pc = "returned"
                => /\ enc.err = NoErr
                   /\ enc.recv = RowMajorSamples
                   /\ Len(enc.recv) = src.W * src.H * SamplesPerPixel(EncoderOpts)
                   /\ enc.w.out = Encode(src, eopts).bytes

\* a raw PAM encoding of a row of two pixels has returned after its
\* goroutine had sent all eight samples
C25_Witness ==
    /\ phase = "encoder" /\ enc.pc = "returned" /\ enc.w.failFrom = 0
    /\ src.W = 2 /\ src.H = 1
    /\ eopts.Format = PAM /\ ~eopts.Plain
    /\ Len(enc.recv) = 8
    /\ enc.closed

\* the pixel data the step-by-step encoder has written after the header
DataWritten ==
    SubSeq(enc.w.out, Len(Concat(HeaderWrites(src, EncoderOpts))) + 1, Len(enc.w.out))

\* C26: plain pixel data is written in lines of at most 70 characters. At
\* every moment of a plain encoding the data written so far ends with a line
\* feed and every line of it, its line feed counted, is at most 70 bytes
\* long; when the writer has returned, the data with its line feeds read as
\* spaces is the decimal form of every sample, once and in order, each
\* followed by one space, so that no sample is split across lines.
C26_PlainLines ==
    (phase = "encoder" /\ enc.pc # "header" /\ EncoderOpts.Plain /\ enc.w.failFrom = 0)
       => LET d == DataWritten
          IN /\ d # <<>> => d[Len(d)] = CH_LF
             /\ \A i \in 1..Len(d) :
                   (i = 1 \/ d[i - 1] = CH_LF)
                      => \E j \in i..Min(i + LineLimit - 1, Len(d)) : d[j] = CH_LF
             /\ enc.pc = "returned"
                   => [i \in 1..Len(d) |-> IF d[i] = CH_LF THEN CH_SP ELSE d[i]]
                         = Concat([k \in 1..Len(RowMajorSamples) |->
                                      Dec(RowMajorSamples[k]) \o <<CH_SP>>])

\* a plain encoding has returned after writing a line of exactly 70 bytes
\* and a second line
C26_Witness ==
    /\ phase = "encoder" /\ enc.pc = "returned" /\ EncoderOpts.Plain
    /\ enc.w.failFrom = 0
    /\ Len(DataWritten) > LineLimit
    /\ DataWritten[LineLimit] = CH_LF
    /\ \A j \in 1..(LineLimit - 1) : DataWritten[j] # CH_LF

\* a comment as GetIntsAndComments returns it: without one leading space
CommentText(cm) == IF cm # <<>> /\ IsSpace(cm[1]) THEN Tail(cm) ELSE cm

\* C27: in a P1-P6 header a '#' straight after a digit starts a comment that
\* does not end the integer. A file whose maximum value is written as digits,
\* '#', a comment, a line feed and more digits decodes with the maximum value
\* of all the digits together ('12#c' line feed '34' is 1234), a file whose
\* width is written that way has that width, the comment is returned, and
\* white space inside the comment does not end the integer either.
C27_CommentInsideInteger ==
    phase = "commented"
       => /\ \A d \in {2, 5}, a \in SplitHeads, cm \in SplitComments, b \in SplitTails :
                file = SplitMaxvalFile(d, a, cm, b)
                   => /\ ret.out = "return" /\ ret.err = NoErr
                      /\ ret.img.W = 1 /\ ret.img.H = 1
                      /\ ret.img.M = DigitsValue(a \o b, 0)
                      /\ ret.comments = <<CommentText(cm)>>
          /\ \A d \in {1, 4}, cm \in SplitComments :
                file = SplitWidthFile(d, cm)
                   => /\ ret.out = "return" /\ ret.err = NoErr
                      /\ ret.img.W = 12 /\ ret.img.H = 1
                      /\ ret.comments = <<CommentText(cm)>>

\* the raw PGM file with the maximum value '12#c' line feed '34' was decoded
C27_Witness ==
    /\ phase = "commented"
    /\ file = SplitMaxvalFile(5, <<CH_0 + 1, CH_0 + 2>>, <<99>>, <<CH_0 + 3, CH_0 + 4>>)
    /\ ret.out = "return" /\ ret.err = NoErr
    /\ ret.img.M = 1234
    /\ ret.comments = <<<<99>>>>

\* C28: write errors propagate. When Encode has returned and a Write call of
\* the underlying writer has returned an error (for the header, for the pixel
\* data or for the final flush of the buffered raw data), Encode has returned
\* a non-nil error.
C28_WriteErrorsPropagate ==
    (phase = "encoder" /\ enc.pc = "returned"
     /\ enc.w.failFrom # 0 /\ enc.w.calls >= enc.w.failFrom)
       => enc.err # NoErr

\* C29: encoder producer termination. In every execution of an encoder in
\* which the goroutine and the caller are scheduled fairly, the goroutine
\* eventually closes the channel, which it does after its last sample, also
\* when the caller has stopped receiving because a write failed.
C29_ProducerTerminates ==
    (phase = "encoder") ~> (phase = "encoder" /\ enc.closed)

\* C30: Opaque() on an image with an alpha channel returns true if and only
\* if the alpha sample of every pixel, the last sample of the pixel, equals
\* the image's MaxValue().
C30_OpaqueIffAlphaMax ==
    phase = "opaque"
       => (opaque <=> \A k \in 1..(ret.img.W * ret.img.H) :
                         SampleAt(ret.img, k * Channels(ret.img)) = MaxValue(ret.img))

====
